---- MODULE Spec2Model ----
(***************************************************************************)
(* News aggregator backend: the expiring caches, the in-flight feed fetch  *)
(* coalescer, the bounded translation queue and the search fan-out.        *)
(*                                                                         *)
(* The repository holds two variants of the server: src/server.js (plain   *)
(* Maps + pruneCache, fetchFeedWithCache, translateText) and the           *)
(* service-based rewrite kept in src/.jules/bolt.md (LRUCache, RSSService, *)
(* TranslationService, SearchService).  The variable `variant` says which  *)
(* one is running; every operation is modelled once per variant.           *)
(***************************************************************************)
EXTENDS Integers, Sequences, FiniteSets, TLC

VARIABLES
    variant,              \* "server" (src/server.js) or "bolt" (src/.jules/bolt.md)
    hasAbortController,   \* whether the runtime defines the global AbortController
    now,                  \* Date.now(), in abstract time units
    rssCache,             \* feed cache: entries in Map insertion order
    translationCache,     \* translation cache: entries in Map insertion order
    pendingFetches,       \* url -> id of the fetch promise registered as pending (0: no entry)
    fetches,              \* every fetch promise created so far, by id
    searches,             \* every search request made so far, with its fetchFeed calls
    translationQueue,     \* the queued translation tasks, FIFO
    activeTranslations,   \* the active-worker counter
    tasks,                \* the tasks whose network call is in flight
    finalizers,           \* server.js: number of .finally callbacks queued as microtasks
    lastTranslate,        \* history: the last translate call and how it was served
    lastSettled,          \* history: the last task that settled and how
    request,              \* the input of the operation that is applied on its own
    response,             \* what that operation has computed
    hist,                 \* history: the keys set into rssCache since it was last empty
    stored,               \* history: key -> what the last set stored for it
    lastGet,              \* history: the last get and what it returned
    order                 \* history: the keys LRUCache holds, by last set and by last use

vars == <<variant, hasAbortController, now, rssCache, translationCache, pendingFetches, fetches,
          searches, translationQueue, activeTranslations, tasks, finalizers,
          lastTranslate, lastSettled, request, response, hist, stored, lastGet, order>>

feedVars == <<pendingFetches, fetches, searches>>
queueVars == <<translationQueue, activeTranslations, tasks, finalizers, lastTranslate, lastSettled>>
translationVars == <<translationCache, queueVars>>
histVars == <<hist, stored, lastGet, order>>
pureVars == <<request, response>>

----------------------------------------------------------------------------
(* Bounds of the model *)

MaxTime == 2          \* the clock stops here
RSS_TTL == 1          \* feed TTL in time units (5 minutes in the code)
TRANSLATION_TTL == 1  \* translation TTL in time units (24 hours in the code)
RSS_LIMIT == 1        \* feed cache capacity (100 / 60 in the code)
Capacity == 2         \* capacity of the cache when it is used on its own
TRANSLATION_LIMIT == 1 \* translation cache capacity (1000 / 600 in the code)
MaxFetches == 2       \* fetch promises per run
MaxTasks == 6         \* translation tasks queued or in flight at a time
MaxSearches == 2      \* search requests per run

(* Program constants *)

MAX_CONCURRENT_TRANSLATIONS == 5
MAX_RESULTS_DEFAULT == 30
MAX_RESULTS_VIEW_ALL == 100

Variants == {"server", "bolt"}
Urls == {"u1", "u2"}
CacheKeys == 1..(Capacity + 1)
FeedValues == {<<1>>, <<2>>}
CacheValues == {<<>>, <<1>>}
TTLs == {0, RSS_TTL}

----------------------------------------------------------------------------
(* JavaScript Map, as the sequence of its entries in insertion order *)

Entry(k, v, e) == [key |-> k, value |-> v, expires |-> e]

MapKeys(m) == [i \in 1..Len(m) |-> m[i].key]

MapHas(m, k) == \E i \in 1..Len(m) : m[i].key = k

MapIndex(m, k) == CHOOSE i \in 1..Len(m) : m[i].key = k

MapGet(m, k) == m[MapIndex(m, k)]

MapDelete(m, k) == SelectSeq(m, LAMBDA e : e.key # k)

\* Map.prototype.set: an existing key keeps its position, a new key goes last
MapSet(m, k, v, e) ==
    IF MapHas(m, k)
    THEN [m EXCEPT ![MapIndex(m, k)] = Entry(k, v, e)]
    ELSE Append(m, Entry(k, v, e))

----------------------------------------------------------------------------
(* src/server.js: pruneCache and the periodic cleanup *)

\* a prune that deletes nothing
pruneCache_Never(m, limit) == m

\* while (map.size > limit) map.delete(map.keys().next().value)
pruneCache(m, limit) ==
    IF Len(m) <= limit THEN m ELSE SubSeq(m, Len(m) - limit + 1, Len(m))

cleanupExpired(m, t) == SelectSeq(m, LAMBDA e : ~(e.expires < t))

\* the hit test of fetchFeedWithCache / translateText: cached && cached.expires > Date.now()
serverHit(m, k, t) == MapHas(m, k) /\ MapGet(m, k).expires > t

serverPut(m, k, v, ttl, t, limit) == pruneCache(MapSet(m, k, v, t + ttl), limit)

----------------------------------------------------------------------------
(* src/.jules/bolt.md: class LRUCache *)

Found(v) == [found |-> TRUE, value |-> v]
Absent == [found |-> FALSE, value |-> <<>>]

\* mutant: an entry never expires
LRUExpired_Never(e, t) == FALSE

\* item.expires && item.expires < Date.now()
LRUExpired(e, t) == e.expires # 0 /\ e.expires < t

\* a get that leaves the entry where it is
LRUGetCache_NoRefresh(m, k, t) ==
    IF ~MapHas(m, k) THEN m
    ELSE IF LRUExpired(MapGet(m, k), t) THEN MapDelete(m, k)
    ELSE m

\* a get that answers absent for an expired entry and keeps it
LRUGetCache_KeepsExpired(m, k, t) ==
    IF ~MapHas(m, k) THEN m
    ELSE IF LRUExpired(MapGet(m, k), t) THEN m
    ELSE Append(MapDelete(m, k), MapGet(m, k))

\* a get that re-inserts the entry at the front
LRUGetCache_ToFront(m, k, t) ==
    IF ~MapHas(m, k) THEN m
    ELSE IF LRUExpired(MapGet(m, k), t) THEN MapDelete(m, k)
    ELSE <<MapGet(m, k)>> \o MapDelete(m, k)

\* mutant: a get renews the expiry of the entry it re-inserts
LRUGetCache_Renews(m, k, t) ==
    IF ~MapHas(m, k) THEN m
    ELSE IF LRUExpired(MapGet(m, k), t) THEN MapDelete(m, k)
    ELSE Append(MapDelete(m, k), [MapGet(m, k) EXCEPT !.expires = @ + 1])

\* get(key): the cache after the call
LRUGetCache(m, k, t) ==
    IF ~MapHas(m, k) THEN m
    ELSE IF LRUExpired(MapGet(m, k), t) THEN MapDelete(m, k)
    ELSE Append(MapDelete(m, k), MapGet(m, k))

\* get(key): what the call returns
LRUGetResult(m, k, t) ==
    IF ~MapHas(m, k) THEN Absent
    ELSE IF LRUExpired(MapGet(m, k), t) THEN Absent
    ELSE Found(MapGet(m, k).value)

\* mutant: evicts the newest entry instead of the oldest
LRUEvict_Newest(m, k, limit) ==
    IF MapHas(m, k) THEN MapDelete(m, k)
    ELSE IF Len(m) >= limit THEN (IF Len(m) = 0 THEN m ELSE SubSeq(m, 1, Len(m) - 1))
    ELSE m

\* mutant: the capacity check comes before the key is looked up
LRUEvict_CountsPresent(m, k, limit) ==
    MapDelete(IF Len(m) >= limit /\ Len(m) > 0 THEN Tail(m) ELSE m, k)

\* if (this.cache.has(key)) delete it; else if (size >= limit) delete the first key
LRUEvict(m, k, limit) ==
    IF MapHas(m, k) THEN MapDelete(m, k)
    ELSE IF Len(m) >= limit THEN (IF Len(m) = 0 THEN m ELSE Tail(m))
    ELSE m

\* mutant: the entry gets no time to live
LRUSet_NoExpiry(m, k, v, ttl, t, limit) == Append(LRUEvict(m, k, limit), Entry(k, v, 0))

\* set(key, value, ttl); ttlFn is null for both caches
LRUSet(m, k, v, ttl, t, limit) ==
    Append(LRUEvict(m, k, limit), Entry(k, v, IF ttl > 0 THEN t + ttl ELSE 0))

LRUPruneExpired(m, t) == SelectSeq(m, LAMBDA e : ~LRUExpired(e, t))

----------------------------------------------------------------------------
(* Initial state: a freshly started process, either variant *)

NoGet == [key |-> 0, time |-> 0, result |-> Absent, done |-> FALSE]
NotStored == [has |-> FALSE, value |-> <<>>, until |-> 0]
NoTranslate == [done |-> FALSE, text |-> "", live |-> FALSE, cached |-> "", enqueued |-> FALSE,
                returned |-> FALSE, value |-> ""]
NoneSettled ==
    [done |-> FALSE, text |-> "", key |-> <<>>, failed |-> FALSE, state |-> "", value |-> ""]

\* history of the LRUCache calls: the keys held, in the order of their last
\* set and in the order of their last set or successful get, and what the
\* last call found and removed if it was a set of an absent key at the limit
NoEviction == [full |-> FALSE, removed |-> {}, earliestSet |-> 0, leastUsed |-> 0]
\* the last call: a set (present: the key was held) or a get (present: it
\* returned the entry)
NoCall == [op |-> "none", key |-> 0, present |-> FALSE]
NoOrder == [set |-> <<>>, use |-> <<>>, last |-> NoEviction, call |-> NoCall]

InitProgram ==
    /\ variant \in Variants
    /\ hasAbortController \in BOOLEAN
    /\ now = 0
    /\ rssCache = <<>>
    /\ translationCache = <<>>
    /\ pendingFetches = [u \in Urls |-> 0]
    /\ fetches = <<>>
    /\ searches = <<>>
    /\ translationQueue = <<>>
    /\ activeTranslations = 0
    /\ tasks = <<>>
    /\ finalizers = 0
    /\ lastTranslate = NoTranslate
    /\ lastSettled = NoneSettled
    /\ hist = [keys |-> <<>>, pure |-> TRUE]
    /\ stored = [u \in CacheKeys |-> NotStored]
    /\ lastGet = NoGet
    /\ order = NoOrder

NoRequest == [kind |-> "none"]
NoResponse == [op |-> "none", results |-> <<>>, previous |-> <<>>, calls |-> <<>>]

Init ==
    /\ InitProgram
    /\ request = NoRequest
    /\ response = NoResponse

\* Date.now() advances
Tick ==
    /\ now < MaxTime
    /\ now' = now + 1

----------------------------------------------------------------------------
(* The cache used on its own: direct get / set / clear / pruneExpired calls *)

SeqToSet(s) == {s[i] : i \in 1..Len(s)}

\* history of the keys a run has set into an initially empty cache, kept only
\* while the run consists of sets of distinct keys
HistAfterSet(k) ==
    IF hist.pure /\ k \notin SeqToSet(hist.keys)
    THEN [hist EXCEPT !.keys = Append(@, k)]
    ELSE [keys |-> <<>>, pure |-> FALSE]

\* what set(k, v, ttl) leaves of the earlier sets with a TTL: k is overwritten,
\* an entry that left the cache in this call was evicted; `until` is the time
\* at which the TTL has elapsed
StoredAfterSet(before, after, k, v, ttl) ==
    [u \in CacheKeys |->
        IF u = k
        THEN (IF ttl > 0 THEN [has |-> TRUE, value |-> v, until |-> now + ttl]
              ELSE NotStored)
        ELSE IF MapHas(before, u) /\ ~MapHas(after, u) THEN NotStored
        ELSE stored[u]]

\* bolt.md: cache.set(key, value, ttl)
CacheSet(k, v, ttl) ==
    /\ variant = "bolt"
    /\ rssCache' = LRUSet(rssCache, k, v, ttl, now, Capacity)
    /\ hist' = HistAfterSet(k)
    /\ stored' = StoredAfterSet(rssCache, rssCache', k, v, ttl)
    /\ lastGet' = NoGet
    /\ UNCHANGED <<pureVars, variant, hasAbortController, now, feedVars, translationVars, order>>

\* bolt.md: cache.get(key)
CacheGet(k) ==
    /\ variant = "bolt"
    /\ rssCache' = LRUGetCache(rssCache, k, now)
    /\ lastGet' = [key |-> k, time |-> now, result |-> LRUGetResult(rssCache, k, now),
                   done |-> TRUE]
    /\ hist' = [keys |-> <<>>, pure |-> FALSE]
    /\ UNCHANGED <<pureVars, variant, hasAbortController, now, feedVars, translationVars, stored,
                   order>>

\* bolt.md: cache.clear()
CacheClear ==
    /\ variant = "bolt"
    /\ rssCache' = <<>>
    /\ hist' = [keys |-> <<>>, pure |-> TRUE]
    /\ stored' = [u \in CacheKeys |-> NotStored]
    /\ lastGet' = NoGet
    /\ UNCHANGED <<pureVars, variant, hasAbortController, now, feedVars, translationVars, order>>

\* bolt.md: cache.pruneExpired(), run by the periodic cleanup
CachePruneExpired ==
    /\ variant = "bolt"
    /\ rssCache' = LRUPruneExpired(rssCache, now)
    /\ hist' = [keys |-> <<>>, pure |-> FALSE]
    /\ lastGet' = NoGet
    /\ UNCHANGED <<pureVars, variant, hasAbortController, now, feedVars, translationVars, stored,
                   order>>

\* server.js: rssCache.set(url, {value, expires}); pruneCache(rssCache, RSS_CACHE_LIMIT)
ServerCachePut(k, v) ==
    /\ variant = "server"
    /\ rssCache' = serverPut(rssCache, k, v, RSS_TTL, now, Capacity)
    /\ hist' = HistAfterSet(k)
    /\ stored' = StoredAfterSet(rssCache, rssCache', k, v, RSS_TTL)
    /\ lastGet' = NoGet
    /\ UNCHANGED <<pureVars, variant, hasAbortController, now, feedVars, translationVars, order>>

\* server.js: cached = rssCache.get(url); if (cached && cached.expires > Date.now()) return cached.value
ServerCacheLookup(k) ==
    /\ variant = "server"
    /\ lastGet' = [key |-> k, time |-> now,
                   result |-> IF serverHit(rssCache, k, now)
                              THEN Found(MapGet(rssCache, k).value) ELSE Absent,
                   done |-> TRUE]
    /\ hist' = [keys |-> <<>>, pure |-> FALSE]
    /\ UNCHANGED <<pureVars, variant, hasAbortController, now, rssCache, feedVars, translationVars, stored,
                   order>>

\* server.js: the setInterval cleanup of both caches
ServerCleanup ==
    /\ variant = "server"
    /\ rssCache' = cleanupExpired(rssCache, now)
    /\ translationCache' = cleanupExpired(translationCache, now)
    /\ hist' = [keys |-> <<>>, pure |-> FALSE]
    /\ lastGet' = NoGet
    /\ UNCHANGED <<pureVars, variant, hasAbortController, now, feedVars, queueVars, stored, order>>

CacheTick ==
    /\ Tick
    /\ lastGet' = NoGet
    /\ UNCHANGED <<pureVars, variant, hasAbortController, rssCache, feedVars, translationVars, hist, stored,
                   order>>

NextCache ==
    \/ \E k \in CacheKeys, v \in CacheValues, ttl \in TTLs : CacheSet(k, v, ttl)
    \/ \E k \in CacheKeys : CacheGet(k)
    \/ CacheClear
    \/ CachePruneExpired
    \/ \E k \in CacheKeys, v \in CacheValues : ServerCachePut(k, v)
    \/ \E k \in CacheKeys : ServerCacheLookup(k)
    \/ ServerCleanup
    \/ CacheTick

InitCache == Init /\ hasAbortController

SpecCache == InitCache /\ [][NextCache]_vars

----------------------------------------------------------------------------
(* Claims about the cache on its own *)

\* C9: starting from an empty cache of capacity C, C+1 sets of distinct keys
\* with nothing in between leave exactly C entries, and the entry missing is
\* the first key set.
C9_EvictsFirstInserted ==
    (hist.pure /\ Len(hist.keys) = Capacity + 1)
        => /\ Len(rssCache) = Capacity
           /\ MapKeys(rssCache) = Tail(hist.keys)

C9_Witness ==
    /\ hist.pure
    /\ Len(hist.keys) = Capacity + 1
    /\ ~MapHas(rssCache, hist.keys[1])

\* C10: an entry set with a TTL t > 0 and not overwritten, evicted or cleared
\* since is returned by every get made before t has elapsed and is absent
\* from every get made after t has elapsed.
C10_TtlExpiry ==
    (lastGet.done /\ stored[lastGet.key].has)
        => /\ lastGet.time < stored[lastGet.key].until
                => lastGet.result = Found(stored[lastGet.key].value)
           /\ lastGet.time > stored[lastGet.key].until
                => lastGet.result = Absent

C10_Witness ==
    /\ lastGet.done
    /\ stored[lastGet.key].has
    /\ lastGet.time > stored[lastGet.key].until
    /\ lastGet.result = Absent

C10_WitnessBefore ==
    /\ lastGet.done
    /\ stored[lastGet.key].has
    /\ lastGet.time < stored[lastGet.key].until
    /\ lastGet.result.found

\* C19: in every reachable state, after any gets, sets, clears and
\* pruneExpired calls, the cache holds at most its capacity of entries.
C19_CapacityBound ==
    /\ Len(rssCache) <= Capacity
    /\ Cardinality(SeqToSet(MapKeys(rssCache))) = Len(rssCache)

\* more keys than the capacity have been set, and the cache is full
C19_Witness ==
    /\ Len(rssCache) = Capacity
    /\ hist.pure
    /\ Len(hist.keys) > Capacity

\* the same bound for the caches of the running server
FeedCacheBound == Len(rssCache) <= RSS_LIMIT
TranslationCacheBound == Len(translationCache) <= TRANSLATION_LIMIT

\* the expiry of the entry has passed
Passed(e) == e.expires > 0 /\ e.expires < now

----------------------------------------------------------------------------
(* The source registry *)

SourceKeys == <<"bbc", "nyt">>

RSS_FEEDS == [bbc |-> "u1", nyt |-> "u2"]

\* sourceKey && RSS_FEEDS[sourceKey] ? [sourceKey] : Object.keys(RSS_FEEDS)
SourcesToLoad(source) ==
    IF source \in DOMAIN RSS_FEEDS THEN <<source>> ELSE SourceKeys

SourceParams == {"bbc", ""}

\* what can go wrong with an outbound feed fetch once it has been issued
FailureKinds == {"timeout", "network", "status", "parse"}

----------------------------------------------------------------------------
(* Feed fetches: fetchFeedWithCache (server.js), RSSService.fetchFeed (bolt.md) *)

InFlight(fs, url) == {f \in 1..Len(fs) : fs[f].url = url /\ fs[f].state = "inflight"}

\* history: the fetch for url that is in flight (0: none)
InFlightId(fs, url) == IF InFlight(fs, url) = {} THEN 0 ELSE CHOOSE f \in InFlight(fs, url) : TRUE

FetchesFor(fs, url) == {f \in 1..Len(fs) : fs[f].url = url}

Max(S) == CHOOSE x \in S : \A y \in S : y <= x

\* history: the latest fetch for url has failed after its request was issued
LastFetchFailed(fs, url) ==
    /\ FetchesFor(fs, url) # {}
    /\ LET f == Max(FetchesFor(fs, url))
       IN fs[f].state # "inflight" /\ fs[f].failed /\ ~fs[f].sync

\* timer: the setTimeout that aborts the request is armed
NewFetch(url) ==
    [url |-> url, state |-> "inflight", value |-> <<>>, failed |-> FALSE, sync |-> FALSE,
     timer |-> TRUE]

\* bolt.md: the async body threw before its first await (new AbortController()
\* is a ReferenceError): catch returns [], and the promise is already settled
\* when fetchFeed gets it back
SyncFailedFetch(url) ==
    [url |-> url, state |-> "resolved", value |-> <<>>, failed |-> TRUE, sync |-> TRUE,
     timer |-> FALSE]

Call(url, sid, via, promise, state, result, failed, st) ==
    [url |-> url, search |-> sid, via |-> via, promise |-> promise, state |-> state,
     result |-> result, failed |-> failed,
     seen |-> InFlightId(st.fetches, url),
     afterFail |-> LastFetchFailed(st.fetches, url)]

\* the caller that is handed the promise of fetch f
JoinCall(url, sid, via, f, fs, st) ==
    Call(url, sid, via, f,
         IF fs[f].state = "inflight" THEN "waiting" ELSE fs[f].state,
         fs[f].value, fs[f].failed, st)

\* bolt.md: what the pending map holds once fetchFeed has started a fetch: the
\* body runs to its first await (or to its end) before pendingRequests.set
BoltStartFetch(st, url, sid) ==
    LET f == Len(st.fetches) + 1
        fs == Append(st.fetches,
                     IF hasAbortController THEN NewFetch(url) ELSE SyncFailedFetch(url))
    IN [st EXCEPT !.fetches = fs,
                  !.pending[url] = f,
                  !.calls = Append(@, JoinCall(url, sid, "new", f, fs, st))]

\* mutant: the pending map is not consulted
BoltFetchFeed_NoPendingCheck(st, url, sid) ==
    LET got == LRUGetResult(st.cache, url, now)
        st1 == [st EXCEPT !.cache = LRUGetCache(st.cache, url, now)]
    IN IF got.found
       THEN [st1 EXCEPT !.calls =
                Append(@, Call(url, sid, "cache", 0, "resolved", got.value, FALSE, st))]
       ELSE BoltStartFetch(st1, url, sid)

\* bolt.md: RSSService.fetchFeed(sourceKey, url), up to the promise it returns
BoltFetchFeed(st, url, sid) ==
    LET got == LRUGetResult(st.cache, url, now)
        st1 == [st EXCEPT !.cache = LRUGetCache(st.cache, url, now)]
    IN IF got.found
       THEN [st1 EXCEPT !.calls =
                Append(@, Call(url, sid, "cache", 0, "resolved", got.value, FALSE, st))]
       ELSE IF st.pending[url] # 0
       THEN [st1 EXCEPT !.calls =
                Append(@, JoinCall(url, sid, "pending", st.pending[url], st.fetches, st))]
       ELSE BoltStartFetch(st1, url, sid)

\* server.js: the promise is registered while the body waits in
\* `await fetchWithTimeout(rssUrl)`, which always suspends
ServerStartFetch(st, url, sid) ==
    LET f == Len(st.fetches) + 1
        fs == Append(st.fetches, NewFetch(url))
    IN [st EXCEPT !.fetches = fs,
                  !.pending[url] = f,
                  !.calls = Append(@, JoinCall(url, sid, "new", f, fs, st))]

\* server.js: fetchFeedWithCache(sourceKey, rssUrl), up to the promise it returns
ServerFetchFeed(st, url, sid) ==
    IF serverHit(st.cache, url, now)
    THEN [st EXCEPT !.calls =
            Append(@, Call(url, sid, "cache", 0, "resolved",
                           MapGet(st.cache, url).value, FALSE, st))]
    ELSE IF st.pending[url] # 0
    THEN [st EXCEPT !.calls =
            Append(@, JoinCall(url, sid, "pending", st.pending[url], st.fetches, st))]
    ELSE ServerStartFetch(st, url, sid)

FetchFeed(st, url, sid) ==
    IF variant = "bolt" THEN BoltFetchFeed(st, url, sid) ELSE ServerFetchFeed(st, url, sid)

\* sources.map(key => fetchFeed(key, RSS_FEEDS[key])): the calls run one after
\* the other, each up to its first suspension; st.calls collects them
RECURSIVE FetchAll(_, _, _)
FetchAll(st, keys, sid) ==
    IF keys = <<>> THEN st
    ELSE FetchAll(FetchFeed(st, RSS_FEEDS[Head(keys)], sid), Tail(keys), sid)

\* the promise of fetch f settles: every caller holding it gets its outcome
Deliver(cs, f, state, value, failed) ==
    [c \in 1..Len(cs) |->
        IF cs[c].promise = f /\ cs[c].state = "waiting"
        THEN [cs[c] EXCEPT !.state = state, !.result = value, !.failed = failed]
        ELSE cs[c]]

DeliverAll(ss, f, state, value, failed) ==
    [s \in 1..Len(ss) |-> [ss[s] EXCEPT !.calls = Deliver(@, f, state, value, failed)]]

----------------------------------------------------------------------------
(* JavaScript strings: the string methods and regular expressions the code   *)
(* applies to links, titles, snippets and queries, character by character    *)

UpperCase == "ABCDEFGHIJKLMNOPQRSTUVWXYZ"
LowerCase == "abcdefghijklmnopqrstuvwxyz"
Digits == "0123456789"
\* the characters of the tokenizer's separator class that are not white space
\* (without the backquote, which a TLA+ string cannot hold)
Punctuation == ",.;:!?\"'()[]{}<>/@#%^&*+=|~"

Chars(s) == {SubSeq(s, i, i) : i \in 1..Len(s)}

IsSpace(c) == c = " "

\* \p{L} and \p{N}, over the ASCII letters and digits
IsLetterOrDigit(c) == c \in Chars(UpperCase) \cup Chars(LowerCase) \cup Chars(Digits)

LowerChar(c) ==
    IF c \in Chars(UpperCase)
    THEN LET i == CHOOSE j \in 1..Len(UpperCase) : SubSeq(UpperCase, j, j) = c
         IN SubSeq(LowerCase, i, i)
    ELSE c

\* String.prototype.toLowerCase
RECURSIVE toLowerCase(_)
toLowerCase(str) ==
    IF str = "" THEN "" ELSE LowerChar(Head(str)) \o toLowerCase(Tail(str))

StartsWith(str, prefix) ==
    Len(str) >= Len(prefix) /\ SubSeq(str, 1, Len(prefix)) = prefix

EndsWith(str, suffix) ==
    Len(str) >= Len(suffix) /\ SubSeq(str, Len(str) - Len(suffix) + 1, Len(str)) = suffix

Drop(str, n) == SubSeq(str, n + 1, Len(str))

\* String.prototype.includes
Includes(str, part) ==
    \E i \in 0..(Len(str) - Len(part)) : SubSeq(str, i + 1, i + Len(part)) = part

\* String.prototype.trim
RECURSIVE trim(_)
trim(str) ==
    IF str = "" THEN ""
    ELSE IF IsSpace(Head(str)) THEN trim(Tail(str))
    ELSE IF IsSpace(SubSeq(str, Len(str), Len(str))) THEN trim(SubSeq(str, 1, Len(str) - 1))
    ELSE str

\* the position of the first occurrence of the character c in str, 0 if none
IndexOf(str, c) ==
    IF \E i \in 1..Len(str) : SubSeq(str, i, i) = c
    THEN CHOOSE i \in 1..Len(str) :
            /\ SubSeq(str, i, i) = c
            /\ \A j \in 1..(i - 1) : SubSeq(str, j, j) # c
    ELSE 0

\* replace(/\s+/g, ' '); the characters up to the next space are copied in
\* one step
RECURSIVE collapseSpaces(_)
collapseSpaces(str) ==
    IF str = "" THEN ""
    ELSE IF IsSpace(Head(str))
    THEN (IF Len(str) > 1 /\ IsSpace(SubSeq(str, 2, 2))
          THEN collapseSpaces(Tail(str))
          ELSE " " \o collapseSpaces(Tail(str)))
    ELSE LET n == IndexOf(str, " ")
         IN IF n = 0 THEN str
            ELSE SubSeq(str, 1, n - 1) \o collapseSpaces(Drop(str, n - 1))

\* replace(/[^\p{L}\p{N}\s]/gu, '')
RECURSIVE keepWordChars(_)
keepWordChars(str) ==
    IF str = "" THEN ""
    ELSE IF IsLetterOrDigit(Head(str)) \/ IsSpace(Head(str))
    THEN Head(str) \o keepWordChars(Tail(str))
    ELSE keepWordChars(Tail(str))

\* replace(/^https?:\/\/(www\.)?/, '')
stripScheme(str) ==
    LET rest == IF StartsWith(str, "https://") THEN Drop(str, 8)
                ELSE IF StartsWith(str, "http://") THEN Drop(str, 7)
                ELSE str
    IN IF rest # str /\ StartsWith(rest, "www.") THEN Drop(rest, 4) ELSE rest

\* replace(/\/$/, '')
stripTrailingSlash(str) ==
    IF EndsWith(str, "/") THEN SubSeq(str, 1, Len(str) - 1) ELSE str

----------------------------------------------------------------------------
(* Articles, and what search does with the fetched lists *)

\* the articles the feeds deliver in the model: NamedArticles are written
\* out, the ones after them are generated and pairwise different
NamedArticles == 1..12
\* the ones of them with a key that normalizes to nothing
EdgeArticles == {9, 10, 11}
\* the ones of them dated before 1970: getTime() is negative
OldArticles == {12}

\* String(n)
RECURSIVE Decimal(_)
Decimal(n) ==
    IF n < 10 THEN SubSeq(Digits, n + 1, n + 1)
    ELSE Decimal(n \div 10) \o SubSeq(Digits, (n % 10) + 1, (n % 10) + 1)

Article(a) ==
    CASE a = 1 -> [id |-> 1, link |-> "https://www.x.com/a/", title |-> "Story A",
                   snippet |-> "First report", publishedAtMs |-> 2]
      [] a = 2 -> [id |-> 2, link |-> "http://x.com/a", title |-> "Other story",
                   snippet |-> "Second report", publishedAtMs |-> 1]
      [] a = 3 -> [id |-> 3, link |-> " HTTP://X.com/A/", title |-> "story  a!",
                   snippet |-> "(No Description)", publishedAtMs |-> 1]
      [] a = 4 -> [id |-> 4, link |-> "", title |-> "!!!",
                   snippet |-> "...", publishedAtMs |-> 0]
      [] a = 5 -> [id |-> 5, link |-> "https://x.com/e", title |-> "Elections in Moscow",
                   snippet |-> "(No Description)", publishedAtMs |-> 1]
      [] a = 6 -> [id |-> 6, link |-> "https://x.com/w", title |-> "Weather",
                   snippet |-> "Sunny", publishedAtMs |-> 3]
      [] a = 7 -> [id |-> 7, link |-> "https://x.com/r", title |-> "Results",
                   snippet |-> "Moscow election results", publishedAtMs |-> 2]
      [] a = 8 -> [id |-> 8, link |-> "HTTPS://X.COM/b", title |-> "Other Story.",
                   snippet |-> "Third report", publishedAtMs |-> 0]
      [] a = 9 -> [id |-> 9, link |-> "https://x.com/n", title |-> "?!",
                   snippet |-> "Fourth report", publishedAtMs |-> 2]
      [] a = 10 -> [id |-> 10, link |-> "/", title |-> "- -",
                    snippet |-> "Fifth report", publishedAtMs |-> 1]
      [] a = 11 -> [id |-> 11, link |-> "http://", title |-> "Story without a link",
                    snippet |-> "Sixth report", publishedAtMs |-> 0]
      [] a = 12 -> [id |-> 12, link |-> "https://x.com/o", title |-> "From the archive",
                    snippet |-> "Seventh report", publishedAtMs |-> -1]
      [] OTHER -> [id |-> a, link |-> "https://x.com/" \o Decimal(a),
                   title |-> "Item " \o Decimal(a),
                   snippet |-> "(No Description)", publishedAtMs |-> 0]

\* (article.link || '').toLowerCase().replace(/^https?:\/\/(www\.)?/, '').replace(/\/$/, '')
cleanLink(link) == stripTrailingSlash(stripScheme(toLowerCase(link)))

\* (article.title || '').toLowerCase().replace(/[^\p{L}\p{N}\s]/gu, '')
\*     .replace(/\s+/g, ' ').trim()
normTitle(title) == trim(collapseSpaces(keepWordChars(toLowerCase(title))))

\* the articles of the model, and the two keys of each, computed once
KnownArticles == 1..(Cardinality(NamedArticles) + MAX_RESULTS_VIEW_ALL + 1)
LinkKey == [a \in KnownArticles |-> cleanLink(Article(a).link)]
TitleKey == [a \in KnownArticles |-> normTitle(Article(a).title)]

RECURSIVE Flatten(_)
Flatten(lists) ==
    IF lists = <<>> THEN <<>> ELSE Head(lists) \o Flatten(Tail(lists))

\* a sort that is not stable: a goes before the articles of its own date
InsertByMs_TiesReversed(sorted, a) ==
    LET p == Cardinality({i \in 1..Len(sorted) :
                            Article(sorted[i]).publishedAtMs > Article(a).publishedAtMs})
    IN SubSeq(sorted, 1, p) \o <<a>> \o SubSeq(sorted, p + 1, Len(sorted))

\* Array.prototype.sort with (a, b) => b.publishedAtMs - a.publishedAtMs: stable
\* a goes after the articles that are not older than it
InsertByMs(sorted, a) ==
    LET p == Cardinality({i \in 1..Len(sorted) :
                            Article(sorted[i]).publishedAtMs >= Article(a).publishedAtMs})
    IN SubSeq(sorted, 1, p) \o <<a>> \o SubSeq(sorted, p + 1, Len(sorted))

RECURSIVE SortInto(_, _)
SortInto(as, sorted) ==
    IF Len(sorted) >= 0 /\ as = <<>> THEN sorted
    ELSE SortInto(Tail(as), InsertByMs(sorted, Head(as)))

SortByMsDesc(as) == SortInto(as, <<>>)

\* mutant: a loop that looks at the links only
RECURSIVE Deduplicate_LinksOnly(_, _, _, _)
Deduplicate_LinksOnly(as, kept, seenLinks, seenTitles) ==
    IF as = <<>> THEN kept
    ELSE LET a == Head(as)
             link == LinkKey[a]
         IN IF link # "" /\ link \in seenLinks
            THEN Deduplicate_LinksOnly(Tail(as), kept, seenLinks, seenTitles)
            ELSE Deduplicate_LinksOnly(Tail(as), Append(kept, a),
                                       IF link # "" THEN seenLinks \cup {link} ELSE seenLinks,
                                       seenTitles)

\* mutant: a loop that puts what it keeps in front
RECURSIVE Deduplicate_Unshift(_, _, _, _)
Deduplicate_Unshift(as, kept, seenLinks, seenTitles) ==
    IF as = <<>> THEN kept
    ELSE LET a == Head(as)
             link == LinkKey[a]
             title == TitleKey[a]
         IN IF (link # "" /\ link \in seenLinks) \/ (title # "" /\ title \in seenTitles)
            THEN Deduplicate_Unshift(Tail(as), kept, seenLinks, seenTitles)
            ELSE Deduplicate_Unshift(Tail(as), <<a>> \o kept,
                                     IF link # "" THEN seenLinks \cup {link} ELSE seenLinks,
                                     IF title # "" THEN seenTitles \cup {title} ELSE seenTitles)

\* mutant: a loop that takes an empty key for a key
RECURSIVE Deduplicate_EmptyKeys(_, _, _, _)
Deduplicate_EmptyKeys(as, kept, seenLinks, seenTitles) ==
    IF as = <<>> THEN kept
    ELSE LET a == Head(as)
             link == LinkKey[a]
             title == TitleKey[a]
         IN IF link \in seenLinks \/ title \in seenTitles
            THEN Deduplicate_EmptyKeys(Tail(as), kept, seenLinks, seenTitles)
            ELSE Deduplicate_EmptyKeys(Tail(as), Append(kept, a), seenLinks \cup {link},
                                       seenTitles \cup {title})

\* bolt.md: the deduplication loop of SearchService.search
RECURSIVE Deduplicate(_, _, _, _)
Deduplicate(as, kept, seenLinks, seenTitles) ==
    IF as = <<>> THEN kept
    ELSE LET a == Head(as)
             link == LinkKey[a]
             title == TitleKey[a]
         IN IF (link # "" /\ link \in seenLinks) \/ (title # "" /\ title \in seenTitles)
            THEN Deduplicate(Tail(as), kept, seenLinks, seenTitles)
            ELSE Deduplicate(Tail(as), Append(kept, a),
                             IF link # "" THEN seenLinks \cup {link} ELSE seenLinks,
                             IF title # "" THEN seenTitles \cup {title} ELSE seenTitles)

\* a slice that cuts nothing
Take_Everything(seq, n) == seq

\* Array.prototype.slice(0, n)
Take(seq, n) == SubSeq(seq, 1, IF Len(seq) < n THEN Len(seq) ELSE n)

\* bolt.md: SearchService.search after the fetches, with no query
BoltResults(lists, viewAll) ==
    Take(Deduplicate(SortByMsDesc(Flatten(lists)), <<>>, {}, {}),
         IF viewAll THEN MAX_RESULTS_VIEW_ALL ELSE MAX_RESULTS_DEFAULT)

\* server.js: /api/search after the fetches, with no query
ServerResults(lists) == Take(SortByMsDesc(Flatten(lists)), MAX_RESULTS_DEFAULT)

----------------------------------------------------------------------------
(* Search requests and the settling of their fetches *)

FeedState == [cache |-> rssCache, pending |-> pendingFetches, fetches |-> fetches,
              calls |-> <<>>]

\* a search that waits in `await Promise.all(...)` for its fetchFeed calls
NewSearch(source, refresh, viewAll, cs) ==
    [source |-> source, refresh |-> refresh, viewAll |-> viewAll,
     state |-> "fetching", ok |-> TRUE, results |-> <<>>, calls |-> cs, lists |-> <<>>]

StartSearch(st, source, refresh, viewAll) ==
    /\ Len(st.fetches) <= MaxFetches
    /\ rssCache' = st.cache
    /\ pendingFetches' = st.pending
    /\ fetches' = st.fetches
    /\ searches' = Append(searches, NewSearch(source, refresh, viewAll, st.calls))
    /\ UNCHANGED <<pureVars, variant, hasAbortController, now, translationVars, histVars>>

\* a refresh that clears nothing
RefreshCache_Keeps(cache, refresh) == cache

\* bolt.md: if (refresh) { this.rssService.cache.clear(); }
RefreshCache(cache, refresh) == IF refresh THEN <<>> ELSE cache

\* bolt.md: SearchService.search(query = '', sourceKey, {viewAll, refresh}) up to
\* `await Promise.all(...)`
SearchStart(source, refresh, viewAll) ==
    /\ variant = "bolt"
    /\ Len(searches) < MaxSearches
    /\ StartSearch(FetchAll([FeedState EXCEPT !.cache = RefreshCache(@, refresh)],
                            SourcesToLoad(source), Len(searches) + 1),
                   source, refresh, viewAll)

\* server.js: app.get('/api/search') with no q, up to `await Promise.all(...)`
ServerSearchStart(source) ==
    /\ variant = "server"
    /\ Len(searches) < MaxSearches
    /\ StartSearch(FetchAll(FeedState, SourcesToLoad(source), Len(searches) + 1),
                   source, FALSE, FALSE)

\* mutant: the articles are not stored
BoltStore_Nothing(cache, url, v) == cache

\* bolt.md: what the fetch body does to the cache when it has the articles
BoltStore(cache, url, v) == LRUSet(cache, url, v, RSS_TTL, now, RSS_LIMIT)

\* server.js: rssCache.set(...); pruneCache(rssCache, RSS_CACHE_LIMIT)
ServerStore(cache, url, v) == serverPut(cache, url, v, RSS_TTL, now, RSS_LIMIT)

\* finally { pending.delete(url) }
PendingDelete(pending, url) == [pending EXCEPT ![url] = 0]

\* a settled promise nobody can get hold of any more
Collected(url) ==
    [url |-> url, state |-> "collected", value |-> <<>>, failed |-> FALSE, sync |-> FALSE,
     timer |-> FALSE]

Reachable(fs, g, pending) ==
    \/ pending[fs[g].url] = g
    \/ g = Max(FetchesFor(fs, fs[g].url))

\* fetch f settles; the settled promises that are neither in the pending map
\* nor the latest of their URL are dropped from the record, and a value no
\* later caller can be handed is forgotten
Settle(fs, f, state, value, failed, pending) ==
    LET fs1 == [fs EXCEPT ![f].state = state, ![f].failed = failed, ![f].timer = FALSE,
                          ![f].value = IF pending[fs[f].url] = f THEN value ELSE <<>>]
    IN [g \in 1..Len(fs1) |->
            IF fs1[g].state \in {"resolved", "rejected"} /\ ~Reachable(fs1, g, pending)
            THEN Collected(fs1[g].url) ELSE fs1[g]]

\* the upstream server answers with a feed that parses to the articles v
FetchSucceed(f, v) ==
    /\ f \in 1..Len(fetches)
    /\ fetches[f].state = "inflight"
    /\ hasAbortController
    /\ rssCache' = IF variant = "bolt" THEN BoltStore(rssCache, fetches[f].url, v)
                   ELSE ServerStore(rssCache, fetches[f].url, v)
    /\ pendingFetches' = PendingDelete(pendingFetches, fetches[f].url)
    /\ fetches' = Settle(fetches, f, "resolved", v, FALSE, pendingFetches')
    /\ searches' = DeliverAll(searches, f, "resolved", v, FALSE)
    /\ UNCHANGED <<pureVars, variant, hasAbortController, now, translationVars, histVars>>

\* mutant: the failure is not caught
BoltFailureOutcome_Rejects == "rejected"

\* bolt.md: catch (error) { ...; return []; } resolves the promise
BoltFailureOutcome == "resolved"

\* server.js: fetchFeedWithCache has try / finally and no catch
ServerFailureOutcome == "rejected"

\* how the promise of a failed fetch settles
FailureOutcome == IF variant = "bolt" THEN BoltFailureOutcome ELSE ServerFailureOutcome

\* the fetch fails: timeout (abort), network error, non-2xx status, XML parse
\* error; without AbortController server.js fails inside fetchWithTimeout
FetchFail(f, kind) ==
    /\ f \in 1..Len(fetches)
    /\ fetches[f].state = "inflight"
    /\ pendingFetches' = PendingDelete(pendingFetches, fetches[f].url)
    /\ fetches' = Settle(fetches, f, FailureOutcome, <<>>, TRUE, pendingFetches')
    /\ searches' = DeliverAll(searches, f, FailureOutcome, <<>>, TRUE)
    /\ UNCHANGED <<pureVars, variant, hasAbortController, now, rssCache, translationVars, histVars>>

Settled(cs) == \A c \in 1..Len(cs) : cs[c].state # "waiting"

\* server.js: try { return await fetchFeedWithCache(key, rssUrl) } catch { return [] }
ServerWrapper(c) == IF c.state = "rejected" THEN <<>> ELSE c.result

\* what Promise.all hands to the search, source by source
ListsOf(cs) ==
    [i \in 1..Len(cs) |-> IF variant = "bolt" THEN cs[i].result ELSE ServerWrapper(cs[i])]

\* Promise.all rejects when one of its promises rejects; bolt.md awaits the
\* fetchFeed promises themselves
AnyRejected(cs) ==
    variant = "bolt" /\ \E c \in 1..Len(cs) : cs[c].state = "rejected"

\* history: what each source of the search delivered, and whether its fetch failed
Delivered(cs) ==
    [i \in 1..Len(cs) |->
        [failed |-> cs[i].failed, list |-> IF cs[i].failed THEN <<>> ELSE cs[i].result]]

\* a request that has been answered and forgotten
Gone == [source |-> "", refresh |-> FALSE, viewAll |-> FALSE,
         state |-> "gone", ok |-> TRUE, results |-> <<>>, calls |-> <<>>, lists |-> <<>>]

\* only the request answered last is remembered
Forget(ss) == [i \in 1..Len(ss) |-> IF ss[i].state = "done" THEN Gone ELSE ss[i]]

\* the search resumes after Promise.all and computes its result; its calls
\* are over
SearchJoin(s) ==
    /\ s \in 1..Len(searches)
    /\ searches[s].state = "fetching"
    /\ Settled(searches[s].calls)
    /\ LET cs == searches[s].calls
       IN searches' = [Forget(searches) EXCEPT
            ![s].state = "done",
            ![s].ok = ~AnyRejected(cs),
            ![s].results = IF AnyRejected(cs) THEN <<>>
                           ELSE IF variant = "bolt"
                           THEN BoltResults(ListsOf(cs), searches[s].viewAll)
                           ELSE ServerResults(ListsOf(cs)),
            ![s].lists = Delivered(cs),
            ![s].calls = <<>>]
    /\ UNCHANGED <<pureVars, variant, hasAbortController, now, rssCache, translationVars,
                   pendingFetches, fetches, histVars>>

\* the periodic cleanup of both caches
FeedCleanup ==
    /\ rssCache' = IF variant = "bolt" THEN LRUPruneExpired(rssCache, now)
                   ELSE cleanupExpired(rssCache, now)
    /\ translationCache' = IF variant = "bolt" THEN LRUPruneExpired(translationCache, now)
                           ELSE cleanupExpired(translationCache, now)
    /\ UNCHANGED <<pureVars, variant, hasAbortController, now, feedVars, queueVars, histVars>>

FeedTick ==
    /\ Tick
    /\ UNCHANGED <<pureVars, variant, hasAbortController, rssCache, feedVars, translationVars, histVars>>

NextFeed ==
    \/ \E source \in SourceParams, refresh \in BOOLEAN : SearchStart(source, refresh, FALSE)
    \/ \E source \in SourceParams : ServerSearchStart(source)
    \/ \E f \in 1..MaxFetches, v \in FeedValues : FetchSucceed(f, v)
    \/ \E f \in 1..MaxFetches, kind \in FailureKinds : FetchFail(f, kind)
    \/ \E s \in 1..MaxSearches : SearchJoin(s)
    \/ FeedCleanup
    \/ FeedTick

SpecFeed == Init /\ [][NextFeed]_vars

----------------------------------------------------------------------------
(* Claims about the feed fetches *)

LiveCalls == UNION {SeqToSet(searches[s].calls) : s \in 1..Len(searches)}

\* C1: the calls for a URL that arrive while it is not cached and a fetch for
\* it is in flight start no fetch of their own: they hold the promise of that
\* one fetch, and resolve to what it resolves to, the article list on success
\* and the empty list on failure.
C1_CoalescedCallsShareResult ==
    \A c \in LiveCalls :
        (c.via # "cache" /\ c.seen # 0)
            => /\ c.via = "pending"
               /\ c.promise = c.seen
               /\ c.state # "waiting" => c.state = "resolved"
               /\ c.failed => c.result = <<>>

\* the part of C1 that both variants keep: one fetch, one shared promise
SharedPromise ==
    \A c \in LiveCalls :
        (c.via # "cache" /\ c.seen # 0) => (c.via = "pending" /\ c.promise = c.seen)

\* C2: at most one outbound fetch per URL is in flight, in every reachable
\* state.
C2_OneFetchPerUrl ==
    \A u \in Urls : Cardinality(InFlight(fetches, u)) <= 1

\* a second caller arrived for a URL whose fetch is in flight, and waits for it
C2_Witness ==
    \E c \in LiveCalls :
        /\ c.via = "pending"
        /\ c.state = "waiting"
        /\ InFlight(fetches, c.url) = {c.promise}
        /\ rssCache # <<>>

\* C3: the pending map holds an entry for a URL exactly while a fetch for it
\* is in flight, and no caller is handed a promise that had already settled
\* when it arrived.
C3_PendingWhileInFlight ==
    /\ \A u \in Urls :
        /\ pendingFetches[u] # 0 <=> InFlight(fetches, u) # {}
        /\ pendingFetches[u] # 0 => pendingFetches[u] \in InFlight(fetches, u)
    /\ \A c \in LiveCalls : c.via = "pending" => c.seen = c.promise

\* C4: a fetch that fails once issued resolves its callers to the empty list
\* instead of rejecting, and the next call for the URL starts a new fetch.
C4_FailureResolvesEmpty ==
    /\ \A c \in LiveCalls : c.failed => (c.state = "resolved" /\ c.result = <<>>)
    /\ \A f \in 1..Len(fetches) :
            fetches[f].failed => (fetches[f].state = "resolved" /\ fetches[f].value = <<>>)
    /\ \A c \in LiveCalls : c.afterFail => c.via = "new"

\* the part of C4 that both variants keep: the call after a failure fetches anew
RefetchAfterFailure == \A c \in LiveCalls : c.afterFail => c.via = "new"

SameStory(a, b) ==
    \/ LinkKey[a] # "" /\ LinkKey[a] = LinkKey[b]
    \/ TitleKey[a] # "" /\ TitleKey[a] = TitleKey[b]

ResultLimit(s) == IF s.viewAll THEN MAX_RESULTS_VIEW_ALL ELSE MAX_RESULTS_DEFAULT

\* C5: whichever of its sources fail, a search completes successfully, with
\* the articles of the sources that succeeded: every article returned comes
\* from such a source, and every article of such a source is returned unless
\* deduplication kept another article of the same story or the limit cut it.
C5_SearchSurvivesFailures ==
    \A s \in 1..Len(searches) :
        searches[s].state = "done" =>
            LET r == searches[s].results
                ls == searches[s].lists
            IN /\ searches[s].ok
               /\ \A a \in SeqToSet(r) :
                    \E i \in 1..Len(ls) : ~ls[i].failed /\ a \in SeqToSet(ls[i].list)
               /\ \A i \in 1..Len(ls) : \A a \in SeqToSet(ls[i].list) :
                    \/ a \in SeqToSet(r)
                    \/ variant = "bolt" /\ \E b \in SeqToSet(r) : SameStory(a, b)
                    \/ Len(r) = ResultLimit(searches[s])

\* a search over both sources of which one failed and one delivered
C5_Witness ==
    \E s \in 1..Len(searches) :
        /\ searches[s].state = "done"
        /\ searches[s].ok
        /\ searches[s].results # <<>>
        /\ \E i \in 1..Len(searches[s].lists) : searches[s].lists[i].failed
        /\ \E i \in 1..Len(searches[s].lists) : ~searches[s].lists[i].failed

----------------------------------------------------------------------------
(* The translation queue *)

Texts == {"", "a", "b"}
TargetLangs == {"ru"}
\* what the backend answers: the joined segments, "" when there are none
Translations == {"", "T"}
TranslationFailures == {"timeout", "network", "status", "payload"}

BoltCacheKey(text, lang) == <<lang, text>>
ServerCacheKey(text, lang) == <<"auto", lang, text>>

Task(text, lang, key) == [text |-> text, lang |-> lang, key |-> key]

Remove(q, i) == SubSeq(q, 1, i - 1) \o SubSeq(q, i + 1, Len(q))

\* JavaScript truthiness of what cache.get returned: undefined and '' are falsy
TruthyString(got) == got.found /\ got.value # ""

\* history: the key has an entry that was written and has not expired
LiveEntry(m, key) == MapHas(m, key) /\ MapGet(m, key).expires > now

QueueState == [queue |-> translationQueue, active |-> activeTranslations, running |-> tasks]

\* mutant: the pool never counts as full
PoolFull_Never(active) == FALSE

\* mutant: the pool always counts as full
PoolFull_Always(active) == TRUE

\* the worker pool has no free slot
PoolFull(active) == active >= MAX_CONCURRENT_TRANSLATIONS

\* mutant: the task enqueued last is started first
BoltProcessQueue_Lifo(st) ==
    IF st.queue = <<>> \/ PoolFull(st.active)
    THEN st
    ELSE [queue |-> SubSeq(st.queue, 1, Len(st.queue) - 1),
          active |-> st.active + 1,
          running |-> Append(st.running, st.queue[Len(st.queue)])]

\* bolt.md: TranslationService.processQueue, up to its await: starts one task
BoltProcessQueue(st) ==
    IF st.queue = <<>> \/ PoolFull(st.active)
    THEN st
    ELSE [queue |-> Tail(st.queue),
          active |-> st.active + 1,
          running |-> Append(st.running, Head(st.queue))]

\* mutant: a task is started without being counted
processTranslationQueue_Uncounted(st) ==
    IF st.queue # <<>> /\ ~PoolFull(st.active)
    THEN [queue |-> Tail(st.queue), active |-> st.active,
          running |-> Append(st.running, Head(st.queue))]
    ELSE st

\* server.js: processTranslationQueue, the whole while loop
RECURSIVE processTranslationQueue(_)
processTranslationQueue(st) ==
    IF st.queue # <<>> /\ ~PoolFull(st.active)
    THEN processTranslationQueue([queue |-> Tail(st.queue),
                                  active |-> st.active + 1,
                                  running |-> Append(st.running, Head(st.queue))])
    ELSE st

Served(text, live, cached, value) ==
    [done |-> TRUE, text |-> text, live |-> live, cached |-> cached, enqueued |-> FALSE,
     returned |-> TRUE, value |-> value]

Enqueued(text, live, cached) ==
    [done |-> TRUE, text |-> text, live |-> live, cached |-> cached, enqueued |-> TRUE,
     returned |-> FALSE, value |-> ""]

CachedValue(m, key) == IF MapHas(m, key) THEN MapGet(m, key).value ELSE ""

\* bolt.md: TranslationService.translate(text, targetLang)
BoltTranslate(text, lang) ==
    /\ variant = "bolt"
    /\ lastSettled' = NoneSettled
    /\ LET key == BoltCacheKey(text, lang)
           got == LRUGetResult(translationCache, key, now)
           live == LiveEntry(translationCache, key)
           cached == CachedValue(translationCache, key)
           st == BoltProcessQueue([QueueState EXCEPT !.queue = Append(@, Task(text, lang, key))])
       IN IF text = ""
          THEN /\ lastTranslate' = Served(text, FALSE, "", "")
               /\ UNCHANGED <<translationCache, translationQueue, activeTranslations, tasks>>
          ELSE /\ translationCache' = LRUGetCache(translationCache, key, now)
               /\ IF TruthyString(got)
                  THEN /\ lastTranslate' = Served(text, live, cached, got.value)
                       /\ UNCHANGED <<translationQueue, activeTranslations, tasks>>
                  ELSE /\ lastTranslate' = Enqueued(text, live, cached)
                       /\ translationQueue' = st.queue
                       /\ activeTranslations' = st.active
                       /\ tasks' = st.running
    /\ UNCHANGED <<pureVars, variant, hasAbortController, now, rssCache, feedVars, finalizers, histVars>>

\* translate, while at most MaxTasks tasks are queued or in flight
Translate(text, lang) ==
    /\ Len(translationQueue) + Len(tasks) < MaxTasks
    /\ BoltTranslate(text, lang)

\* server.js: translateText(text, { to })
ServerTranslateText(text, lang) ==
    /\ variant = "server"
    /\ lastSettled' = NoneSettled
    /\ LET key == ServerCacheKey(text, lang)
           live == LiveEntry(translationCache, key)
           cached == CachedValue(translationCache, key)
           st == processTranslationQueue(
                    [QueueState EXCEPT !.queue = Append(@, Task(text, lang, key))])
       IN IF text = ""
          THEN /\ lastTranslate' = Served(text, FALSE, "", "")
               /\ UNCHANGED <<translationQueue, activeTranslations, tasks>>
          ELSE IF serverHit(translationCache, key, now)
          THEN /\ lastTranslate' = Served(text, live, cached, MapGet(translationCache, key).value)
               /\ UNCHANGED <<translationQueue, activeTranslations, tasks>>
          ELSE /\ lastTranslate' = Enqueued(text, live, cached)
               /\ translationQueue' = st.queue
               /\ activeTranslations' = st.active
               /\ tasks' = st.running
    /\ UNCHANGED <<pureVars, variant, hasAbortController, now, rssCache, translationCache, feedVars,
                   finalizers, histVars>>

\* translateText, while at most MaxTasks tasks are queued or in flight
translateText(text, lang) ==
    /\ Len(translationQueue) + Len(tasks) < MaxTasks
    /\ ServerTranslateText(text, lang)

\* mutant: the failure reaches the caller
FailedTranslation_Rejects(task) ==
    [done |-> TRUE, text |-> task.text, key |-> task.key, failed |-> TRUE, state |-> "rejected",
     value |-> ""]

\* the catch of both variants: resolve with the original text
FailedTranslation(task) ==
    [done |-> TRUE, text |-> task.text, key |-> task.key, failed |-> TRUE, state |-> "resolved",
     value |-> task.text]

\* the promise of the task is resolved with the translation
Translated(task, v) ==
    [done |-> TRUE, text |-> task.text, key |-> task.key, failed |-> FALSE, state |-> "resolved",
     value |-> v]

\* bolt.md: processQueue after its await, the translation arrived
ProcessQueueSucceed(i, v) ==
    /\ variant = "bolt"
    /\ hasAbortController
    /\ i \in 1..Len(tasks)
    /\ translationCache' = LRUSet(translationCache, tasks[i].key, v, TRANSLATION_TTL, now,
                                  TRANSLATION_LIMIT)
    /\ lastSettled' = Translated(tasks[i], v)
    /\ lastTranslate' = NoTranslate
    /\ LET st == BoltProcessQueue([QueueState EXCEPT !.active = @ - 1,
                                                     !.running = Remove(@, i)])
       IN /\ translationQueue' = st.queue
          /\ activeTranslations' = st.active
          /\ tasks' = st.running
    /\ UNCHANGED <<pureVars, variant, hasAbortController, now, rssCache, feedVars, finalizers, histVars>>

\* mutant: the fallback text is stored like a translation
ProcessQueueFail_Stores(i, kind) ==
    /\ variant = "bolt"
    /\ i \in 1..Len(tasks)
    /\ translationCache' = LRUSet(translationCache, tasks[i].key, tasks[i].text, TRANSLATION_TTL,
                                  now, TRANSLATION_LIMIT)
    /\ lastSettled' = FailedTranslation(tasks[i])
    /\ lastTranslate' = NoTranslate
    /\ LET st == BoltProcessQueue([QueueState EXCEPT !.active = @ - 1,
                                                     !.running = Remove(@, i)])
       IN /\ translationQueue' = st.queue
          /\ activeTranslations' = st.active
          /\ tasks' = st.running
    /\ UNCHANGED <<pureVars, variant, hasAbortController, now, rssCache, feedVars, finalizers, histVars>>

\* bolt.md: processQueue after its await, _performTranslation threw
ProcessQueueFail(i, kind) ==
    /\ variant = "bolt"
    /\ i \in 1..Len(tasks)
    /\ lastSettled' = FailedTranslation(tasks[i])
    /\ lastTranslate' = NoTranslate
    /\ LET st == BoltProcessQueue([QueueState EXCEPT !.active = @ - 1,
                                                     !.running = Remove(@, i)])
       IN /\ translationQueue' = st.queue
          /\ activeTranslations' = st.active
          /\ tasks' = st.running
    /\ UNCHANGED <<pureVars, variant, hasAbortController, now, rssCache, translationCache, feedVars,
                   finalizers, histVars>>

\* server.js: execute() after its awaits, the translation arrived; its
\* .finally callback is queued
ExecuteSucceed(i, v) ==
    /\ variant = "server"
    /\ hasAbortController
    /\ finalizers = 0
    /\ i \in 1..Len(tasks)
    /\ translationCache' = serverPut(translationCache, tasks[i].key, v, TRANSLATION_TTL, now,
                                     TRANSLATION_LIMIT)
    /\ lastSettled' = Translated(tasks[i], v)
    /\ lastTranslate' = NoTranslate
    /\ tasks' = Remove(tasks, i)
    /\ finalizers' = finalizers + 1
    /\ UNCHANGED <<pureVars, variant, hasAbortController, now, rssCache, feedVars, translationQueue,
                   activeTranslations, histVars>>

\* server.js: execute() caught a failure; its .finally callback is queued
ExecuteFail(i, kind) ==
    /\ variant = "server"
    /\ finalizers = 0
    /\ i \in 1..Len(tasks)
    /\ lastSettled' = FailedTranslation(tasks[i])
    /\ lastTranslate' = NoTranslate
    /\ tasks' = Remove(tasks, i)
    /\ finalizers' = finalizers + 1
    /\ UNCHANGED <<pureVars, variant, hasAbortController, now, rssCache, translationCache, feedVars,
                   translationQueue, activeTranslations, histVars>>

\* server.js: the .finally callback of processTranslationQueue
Finalizer ==
    /\ variant = "server"
    /\ finalizers > 0
    /\ finalizers' = finalizers - 1
    /\ lastSettled' = NoneSettled
    /\ lastTranslate' = NoTranslate
    /\ LET st == processTranslationQueue([QueueState EXCEPT !.active = @ - 1])
       IN /\ translationQueue' = st.queue
          /\ activeTranslations' = st.active
          /\ tasks' = st.running
    /\ UNCHANGED <<pureVars, variant, hasAbortController, now, rssCache, translationCache, feedVars,
                   histVars>>

\* a macrotask runs only once the microtask queue is empty
TranslationCleanup ==
    /\ finalizers = 0
    /\ translationCache' = IF variant = "bolt" THEN LRUPruneExpired(translationCache, now)
                           ELSE cleanupExpired(translationCache, now)
    /\ lastTranslate' = NoTranslate
    /\ lastSettled' = NoneSettled
    /\ UNCHANGED <<pureVars, variant, hasAbortController, now, rssCache, feedVars, translationQueue,
                   activeTranslations, tasks, finalizers, histVars>>

TranslationTick ==
    /\ finalizers = 0
    /\ Tick
    /\ lastTranslate' = NoTranslate
    /\ lastSettled' = NoneSettled
    /\ UNCHANGED <<pureVars, variant, hasAbortController, rssCache, translationCache, feedVars,
                   translationQueue, activeTranslations, tasks, finalizers, histVars>>

NextTranslate ==
    \/ \E text \in Texts, lang \in TargetLangs : Translate(text, lang)
    \/ \E text \in Texts, lang \in TargetLangs : translateText(text, lang)
    \/ \E i \in 1..MAX_CONCURRENT_TRANSLATIONS, v \in Translations : ProcessQueueSucceed(i, v)
    \/ \E i \in 1..MAX_CONCURRENT_TRANSLATIONS, kind \in TranslationFailures :
            ProcessQueueFail(i, kind)
    \/ \E i \in 1..MAX_CONCURRENT_TRANSLATIONS, v \in Translations : ExecuteSucceed(i, v)
    \/ \E i \in 1..MAX_CONCURRENT_TRANSLATIONS, kind \in TranslationFailures :
            ExecuteFail(i, kind)
    \/ Finalizer
    \/ TranslationCleanup
    \/ TranslationTick

SpecTranslate == Init /\ [][NextTranslate]_vars

----------------------------------------------------------------------------
(* Claims about the translation queue *)

\* C6: in every reachable state at most MAX_CONCURRENT_TRANSLATIONS (5)
\* translation network calls are in flight, however many translate calls
\* were issued, and the worker counter never exceeds that limit either.
C6_BoundedTranslations ==
    /\ Len(tasks) <= MAX_CONCURRENT_TRANSLATIONS
    /\ activeTranslations <= MAX_CONCURRENT_TRANSLATIONS

\* the pool is full and a further task waits in the queue
C6_Witness ==
    /\ Len(tasks) = MAX_CONCURRENT_TRANSLATIONS
    /\ translationQueue # <<>>

\* C7: translate never rejects: a task settles by resolving, and when its
\* upstream call failed, in whatever way, it resolves to the original text.
C7_TranslateNeverRejects ==
    lastSettled.done =>
        /\ lastSettled.state = "resolved"
        /\ lastSettled.failed => lastSettled.value = lastSettled.text

\* a task whose upstream call failed has settled
C7_Witness ==
    /\ lastSettled.done
    /\ lastSettled.failed
    /\ lastSettled.state = "resolved"
    /\ lastSettled.value = lastSettled.text

\* C8: a translate call for a key whose entry was written to the translation
\* cache and is neither expired nor evicted returns the cached string and
\* enqueues no task, whatever that string is, the empty string included.
C8_CacheHitServed ==
    (lastTranslate.done /\ lastTranslate.live)
        => /\ ~lastTranslate.enqueued
           /\ lastTranslate.returned
           /\ lastTranslate.value = lastTranslate.cached

\* the part of C8 that both variants keep: a non-empty cached string is served
NonEmptyHitServed ==
    (lastTranslate.done /\ lastTranslate.live /\ lastTranslate.cached # "")
        => /\ ~lastTranslate.enqueued
           /\ lastTranslate.value = lastTranslate.cached

----------------------------------------------------------------------------
(* Search on its own: the steps after the fetches, applied to a given list  *)
(* of fetched articles and a given query                                    *)

MaxArticles == 3      \* articles the feeds deliver to one search

BoltSeparators == Chars(Punctuation) \cup {" "}
ServerSeparators == BoltSeparators \cup {"\\"}

\* String.prototype.split with a regular expression of the form /[...]+/
RECURSIVE split(_, _, _)
split(str, cur, separators) ==
    IF str = "" THEN <<cur>>
    ELSE IF Head(str) \in separators
    THEN (IF Len(str) > 1 /\ SubSeq(str, 2, 2) \in separators
          THEN split(Tail(str), cur, separators)
          ELSE <<cur>> \o split(Tail(str), "", separators))
    ELSE split(Tail(str), cur \o Head(str), separators)

\* bolt.md: SearchService._tokenize
BoltTokenize(text) ==
    SelectSeq([i \in 1..Len(split(toLowerCase(text), "", BoltSeparators)) |->
                    trim(split(toLowerCase(text), "", BoltSeparators)[i])],
              LAMBDA t : Len(t) >= 2)

\* server.js: tokenize
tokenize(query) ==
    SelectSeq([i \in 1..Len(split(toLowerCase(query), "", ServerSeparators)) |->
                    trim(split(toLowerCase(query), "", ServerSeparators)[i])],
              LAMBDA t : t # "")

\* [...new Set(tokens)]: the first occurrence of each token, in order
RECURSIVE Unique(_)
Unique(tokens) ==
    IF tokens = <<>> THEN <<>>
    ELSE LET rest == Unique(SubSeq(tokens, 1, Len(tokens) - 1))
             last == tokens[Len(tokens)]
         IN IF last \in SeqToSet(rest) THEN rest ELSE Append(rest, last)

\* server.js: buildSearchTokens
buildSearchTokens(originalQuery, translatedQuery) ==
    Unique(tokenize(originalQuery) \o tokenize(translatedQuery))

TITLE_WEIGHT == 5
SNIPPET_WEIGHT == 2

\* bolt.md: SearchService._score; the regular expression of a token is the
\* escaped token with the flags iu, tested against the lower-cased text
RECURSIVE BoltScore(_, _)
BoltScore(a, tokens) ==
    IF tokens = <<>> THEN 0
    ELSE (IF Includes(toLowerCase(Article(a).title), Head(tokens)) THEN TITLE_WEIGHT
          ELSE IF Includes(toLowerCase(Article(a).snippet), Head(tokens)) THEN SNIPPET_WEIGHT
          ELSE 0)
         + BoltScore(a, Tail(tokens))

\* the full text the normalizer derives from the description of the item
FullText(a) == IF Article(a).snippet = "(No Description)" THEN "" ELSE Article(a).snippet

\* server.js: scoreArticle
RECURSIVE scoreArticle(_, _)
scoreArticle(a, tokens) ==
    IF tokens = <<>> THEN 0
    ELSE (IF Includes(toLowerCase(Article(a).title \o " " \o Article(a).snippet \o " "
                                  \o FullText(a)),
                      Head(tokens))
          THEN 1 ELSE 0)
         + scoreArticle(a, Tail(tokens))

\* mutant: a sort by descending score alone
InsertRanked_ScoreOnly(sorted, x) ==
    LET p == Cardinality({i \in 1..Len(sorted) : sorted[i].score >= x.score})
    IN SubSeq(sorted, 1, p) \o <<x>> \o SubSeq(sorted, p + 1, Len(sorted))

\* sort by descending score, ties by descending publishedAtMs: stable
InsertRanked(sorted, x) ==
    LET p == Cardinality({i \in 1..Len(sorted) :
                \/ sorted[i].score > x.score
                \/ /\ sorted[i].score = x.score
                   /\ Article(sorted[i].article).publishedAtMs
                        >= Article(x.article).publishedAtMs})
    IN SubSeq(sorted, 1, p) \o <<x>> \o SubSeq(sorted, p + 1, Len(sorted))

RECURSIVE SortRankedInto(_, _)
SortRankedInto(items, sorted) ==
    IF Len(sorted) >= 0 /\ items = <<>> THEN sorted
    ELSE SortRankedInto(Tail(items), InsertRanked(sorted, Head(items)))

SortRanked(items) == SortRankedInto(items, <<>>)

Articles(items) == [i \in 1..Len(items) |-> items[i].article]

\* bolt.md: the sort and the deduplication loop of SearchService.search
DeduplicateStep(as) == Deduplicate(SortByMsDesc(as), <<>>, {}, {})

\* bolt.md: the filtering and scoring of SearchService.search
BoltRank(as, query, translatedQuery) ==
    LET uniqueTokens == Unique(BoltTokenize(query) \o BoltTokenize(translatedQuery))
        scored == [i \in 1..Len(as) |-> [article |-> as[i], score |-> BoltScore(as[i], uniqueTokens)]]
    IN IF query # "" /\ Len(uniqueTokens) > 0
       THEN Articles(SortRanked(SelectSeq(scored, LAMBDA x : x.score > 0)))
       ELSE as

\* bolt.md: SearchService.search after the fetches
BoltSearch(as, query, translatedQuery, viewAll) ==
    Take(BoltRank(DeduplicateStep(as), query, translatedQuery),
         IF viewAll THEN MAX_RESULTS_VIEW_ALL ELSE MAX_RESULTS_DEFAULT)

\* server.js: /api/search after the fetches, up to `limited`
ServerSearch(as, query, translatedQuery) ==
    LET tokens == IF trim(query) # "" THEN buildSearchTokens(trim(query), translatedQuery)
                  ELSE <<>>
        scored == [i \in 1..Len(as) |-> [article |-> as[i], score |-> scoreArticle(as[i], tokens)]]
    IN Take(IF Len(tokens) > 0
            THEN Articles(SortRanked(SelectSeq(scored, LAMBDA x : x.score > 0)))
            ELSE SortByMsDesc(as),
            MAX_RESULTS_DEFAULT)

\* the translate calls of the display translation: title and snippet of each
\* article of the response
RECURSIVE DisplayCalls(_)
DisplayCalls(results) ==
    IF results = <<>> THEN <<>>
    ELSE <<[article |-> Head(results), text |-> Article(Head(results)).title],
           [article |-> Head(results), text |-> Article(Head(results)).snippet]>>
         \o DisplayCalls(Tail(results))

ArticleIds == NamedArticles \ (EdgeArticles \cup OldArticles)
\* the lists of up to MaxArticles different articles
ArticleLists ==
    UNION {{as \in [1..n -> ArticleIds] : \A i, j \in 1..n : as[i] = as[j] => i = j} :
           n \in 0..MaxArticles}

SearchQueries == {"", "Moscow election", "!"}
\* what the translation of the query to English resolves to: the query
\* itself when the translation fails or changes nothing
TranslatedQueries(query) == IF query = "!" THEN {query, "weather"} ELSE {query}

\* more articles than a response may hold
BulkSizes == {MAX_RESULTS_DEFAULT + 1, MAX_RESULTS_VIEW_ALL + 1}
BulkList(n) == [i \in 1..n |-> Cardinality(NamedArticles) + i]

SearchRequest(as, query, translatedQuery, viewAll) ==
    [kind |-> "search", articles |-> as, query |-> query, translated |-> translatedQuery,
     viewAll |-> viewAll]

SearchRequests ==
    UNION {{SearchRequest(as, q, t, FALSE) : as \in ArticleLists, t \in TranslatedQueries(q)} :
           q \in SearchQueries}
    \cup {SearchRequest(BulkList(n), "", "", v) : n \in BulkSizes, v \in BOOLEAN}

InitSearch ==
    /\ InitProgram
    /\ hasAbortController
    /\ request \in SearchRequests
    /\ response = NoResponse

SearchResponse(results) ==
    [op |-> "search", results |-> results, previous |-> <<>>, calls |-> DisplayCalls(results)]

\* bolt.md: GET /api/search after the fetches: search, then the display
\* translation of its results
Search ==
    /\ variant = "bolt"
    /\ request.kind = "search"
    /\ response.op = "none"
    /\ response' = SearchResponse(BoltSearch(request.articles, request.query,
                                             request.translated, request.viewAll))
    /\ UNCHANGED <<request, variant, hasAbortController, now, rssCache, feedVars,
                   translationVars, histVars>>

\* server.js: GET /api/search after the fetches; view_all is not read
ServerSearchRequest ==
    /\ variant = "server"
    /\ request.kind = "search"
    /\ response.op = "none"
    /\ response' = SearchResponse(ServerSearch(request.articles, request.query,
                                               request.translated))
    /\ UNCHANGED <<request, variant, hasAbortController, now, rssCache, feedVars,
                   translationVars, histVars>>

\* bolt.md: the deduplication step alone
DeduplicateOnce ==
    /\ variant = "bolt"
    /\ request.kind = "search"
    /\ request.query = ""
    /\ response.op = "none"
    /\ response' = [op |-> "deduplicate", results |-> DeduplicateStep(request.articles),
                    previous |-> request.articles, calls |-> <<>>]
    /\ UNCHANGED <<request, variant, hasAbortController, now, rssCache, feedVars,
                   translationVars, histVars>>

\* bolt.md: the deduplication step applied to its own output
DeduplicateAgain ==
    /\ variant = "bolt"
    /\ response.op = "deduplicate"
    /\ response' = [op |-> "deduplicated twice", results |-> DeduplicateStep(response.results),
                    previous |-> response.results, calls |-> <<>>]
    /\ UNCHANGED <<request, variant, hasAbortController, now, rssCache, feedVars,
                   translationVars, histVars>>

NextSearch ==
    \/ Search
    \/ ServerSearchRequest
    \/ DeduplicateOnce
    \/ DeduplicateAgain

SpecSearch == InitSearch /\ [][NextSearch]_vars

----------------------------------------------------------------------------
(* Claims about search on its own *)

\* C11: the deduplication step is idempotent: applied to its own output, for
\* any input list, it returns that output unchanged.
C11_DeduplicateIdempotent ==
    response.op = "deduplicated twice" => response.results = response.previous

\* the second pass ran on the output of a first pass that had removed articles
C11_Witness ==
    /\ response.op = "deduplicated twice"
    /\ response.results = response.previous
    /\ Len(response.results) >= 2
    /\ Len(response.results) < Len(request.articles)

\* two links that differ only in letter case, protocol, a www. prefix, a
\* trailing slash or surrounding whitespace
SameLink(a, b) ==
    /\ Article(a).link # Article(b).link
    /\ cleanLink(trim(Article(a).link)) = cleanLink(trim(Article(b).link))

SameTitle(a, b) == normTitle(Article(a).title) = normTitle(Article(b).title)

\* the search of the request got one article from each of two sources, both
\* about one story, and had no query
TwoSourcesOneStory ==
    /\ request.kind = "search"
    /\ request.query = ""
    /\ Len(request.articles) = 2
    /\ SameTitle(request.articles[1], request.articles[2])
    /\ SameLink(request.articles[1], request.articles[2])

\* C12: when two sources each return one article of the same story (equal
\* normalized titles, links that differ only in case, protocol, www. prefix,
\* trailing slash or surrounding whitespace), a search with no query returns
\* exactly one article.
C12_OneArticlePerStory ==
    (TwoSourcesOneStory /\ response.op = "search") => Len(response.results) = 1

\* the part of C12 that bolt.md keeps
BoltOneArticlePerStory ==
    (variant = "bolt" /\ TwoSourcesOneStory /\ response.op = "search")
        => Len(response.results) = 1

BoltOneArticlePerStoryReached ==
    variant = "bolt" /\ TwoSourcesOneStory /\ response.op = "search"

\* the tokens the search of the request scores with
QueryTokens ==
    IF variant = "bolt"
    THEN Unique(BoltTokenize(request.query) \o BoltTokenize(request.translated))
    ELSE buildSearchTokens(trim(request.query), request.translated)

\* the relevance score the search of the request gives to an article
RelevanceScore(a) ==
    IF variant = "bolt" THEN BoltScore(a, QueryTokens) ELSE scoreArticle(a, QueryTokens)

\* C13: for every non-empty query, also one that yields no usable token,
\* every article of the result has a positive relevance score.
C13_ResultsScorePositive ==
    (request.kind = "search" /\ request.query # "" /\ response.op = "search")
        => \A i \in 1..Len(response.results) : RelevanceScore(response.results[i]) > 0

\* the part of C13 that holds: with at least one usable token, every article
\* of the result has a positive score
ScoredResultsPositive ==
    (request.kind = "search" /\ request.query # "" /\ response.op = "search"
        /\ QueryTokens # <<>>)
        => \A i \in 1..Len(response.results) : RelevanceScore(response.results[i]) > 0

InTitle(a, token) == Includes(toLowerCase(Article(a).title), token)
InSnippet(a, token) == Includes(toLowerCase(Article(a).snippet), token)

\* what one token contributes to the score of an article
Contribution(a, token) ==
    IF variant = "bolt" THEN BoltScore(a, <<token>>) ELSE scoreArticle(a, <<token>>)

\* a match in the title counts more than a match in the snippet alone
TitleWeighsMore ==
    \A i \in 1..Len(QueryTokens), a, b \in SeqToSet(request.articles) :
        (InTitle(a, QueryTokens[i]) /\ ~InTitle(b, QueryTokens[i])
            /\ InSnippet(b, QueryTokens[i]))
        => Contribution(a, QueryTokens[i]) > Contribution(b, QueryTokens[i])

\* the articles titled 'Elections in Moscow' and 'Weather' and the one with
\* the snippet 'Moscow election results', searched for 'Moscow election'
MoscowExample ==
    /\ request.kind = "search"
    /\ request.query = "Moscow election"
    /\ SeqToSet(request.articles) = {5, 6, 7}

\* C14: for each query token a match in the title contributes strictly more
\* to the score than a match only in the snippet; in the example the article
\* matching in its title is ranked before the one matching in its snippet
\* only, and the article that does not match is left out.
C14_TitleOutranksSnippet ==
    (request.kind = "search" /\ request.query # "" /\ response.op = "search")
        => /\ TitleWeighsMore
           /\ MoscowExample => response.results = <<5, 7>>

\* the part of C14 that bolt.md keeps
BoltTitleOutranksSnippet ==
    (variant = "bolt" /\ request.kind = "search" /\ request.query # ""
        /\ response.op = "search")
        => /\ TitleWeighsMore
           /\ MoscowExample => response.results = <<5, 7>>

BoltTitleOutranksSnippetReached ==
    variant = "bolt" /\ MoscowExample /\ response.op = "search"

----------------------------------------------------------------------------
(* The normalizer: from an item of a parsed feed to an article.  The fields *)
(* of an item are strings here, the empty string standing for a field the   *)
(* item does not have                                                       *)

\* replace(/<[^>]+>/g, ' '): a tag is a < with its next > at least two
\* characters later
\* the characters up to the next < are copied in one step
RECURSIVE replaceTags(_)
replaceTags(str) ==
    IF str = "" THEN ""
    ELSE IF Head(str) = "<"
    THEN (IF IndexOf(Tail(str), ">") >= 2
          THEN " " \o replaceTags(Drop(Tail(str), IndexOf(Tail(str), ">")))
          ELSE "<" \o replaceTags(Tail(str)))
    ELSE LET n == IndexOf(str, "<")
         IN IF n = 0 THEN str
            ELSE SubSeq(str, 1, n - 1) \o replaceTags(Drop(str, n - 1))

\* stripHtml of both servers
stripHtml(input) == trim(collapseSpaces(replaceTags(input)))

\* a || b of two strings
Or(a, b) == IF a # "" THEN a ELSE b

FULL_TEXT_LIMIT == 4000

\* the date strings of the model that new Date(dateString) can parse
ValidDates == {"1970-01-01T00:00:00.002Z", "Thu, 01 Jan 1970 00:00:01 GMT"}

\* new Date(dateString).getTime() of such a string
DateTime(dateString) ==
    CASE dateString = "1970-01-01T00:00:00.002Z" -> 2
      [] dateString = "Thu, 01 Jan 1970 00:00:01 GMT" -> 1000

\* Date.prototype.toISOString
toISOString(ms) ==
    CASE ms = 2 -> "1970-01-01T00:00:00.002Z"
      [] ms = 1000 -> "1970-01-01T00:00:01.000Z"

Null == "null"

\* bolt.md: RSSService._normalizeItem
BoltNormalizeItem(sourceKey, item, index) ==
    LET title == stripHtml(item.title)
        description == stripHtml(Or(item.description, item.content))
        link == item.link
        valid == item.pubDate # "" /\ item.pubDate \in ValidDates
        publishedAtMs == IF valid THEN DateTime(item.pubDate) ELSE 0
        id == Or(item.guid, Or(link, sourceKey \o "-" \o Decimal(publishedAtMs)
                                        \o "-" \o Decimal(index)))
        rawFull == Or(item.content, description)
        fullText == SubSeq(stripHtml(rawFull), 1,
                           IF Len(stripHtml(rawFull)) < FULL_TEXT_LIMIT
                           THEN Len(stripHtml(rawFull)) ELSE FULL_TEXT_LIMIT)
    IN [id |-> id,
        title |-> Or(title, "(No Title)"),
        snippet |-> Or(description, "(No Description)"),
        link |-> link,
        fullText |-> IF Len(fullText) > 3 THEN fullText ELSE description,
        publishedAt |-> IF valid THEN toISOString(publishedAtMs) ELSE Null,
        publishedAtMs |-> publishedAtMs]

\* server.js: the sentinels of normalizeArticle are Russian, '(Без заголовка)'
\* and '(Описание недоступно)'; they are transliterated here, as is the
\* character U+2026 that ends a truncated text
NO_TITLE == "(Bez zagolovka)"
NO_DESCRIPTION == "(Opisanie nedostupno)"
Ellipsis == "..."

\* server.js: normalizeArticle
normalizeArticle(sourceKey, item, index, t) ==
    LET title == stripHtml(item.title)
        description == stripHtml(Or(item.description, item.content))
        link == item.link
        fullTextClean == stripHtml(Or(item.content, item.description))
        fullText == IF Len(fullTextClean) > FULL_TEXT_LIMIT
                    THEN SubSeq(fullTextClean, 1, FULL_TEXT_LIMIT) \o Ellipsis
                    ELSE fullTextClean
        valid == item.pubDate # "" /\ item.pubDate \in ValidDates
        publishedAtMs == IF valid THEN DateTime(item.pubDate) ELSE 0
        guid == Or(item.guid, Or(link, sourceKey \o "-"
                        \o Decimal(IF publishedAtMs # 0 THEN publishedAtMs ELSE t)
                        \o "-" \o Decimal(index)))
    IN [id |-> guid,
        title |-> Or(title, NO_TITLE),
        snippet |-> Or(description, NO_DESCRIPTION),
        link |-> link,
        fullText |-> fullText,
        publishedAt |-> IF valid THEN toISOString(publishedAtMs) ELSE Null,
        publishedAtMs |-> publishedAtMs]

Titles == {"", "Title", "<b>Bold</b> title"}
Descriptions == {"", "<p>Long  text</p>", "<p>ab</p>", "<br/>"}
Contents == {"", "<div>Full text</div>", "abc"}
Guids == {"", "guid-1"}
Links == {"", "https://x.com/a"}
DateStrings == {"", "yesterday", "1970-01-01T00:00:00.002Z", "Thu, 01 Jan 1970 00:00:01 GMT"}
Indexes == {0, 1}

Items ==
    [title : Titles, description : Descriptions, content : Contents, guid : Guids,
     link : Links, pubDate : DateStrings]

NormalizeRequests ==
    {[kind |-> "normalize", sourceKey |-> k, item |-> item, index |-> i] :
        k \in {SourceKeys[1]}, item \in Items, i \in Indexes}

InitNormalize ==
    /\ InitProgram
    /\ hasAbortController
    /\ request \in NormalizeRequests
    /\ response = NoResponse

\* bolt.md: RSSService._normalizeItem applied to the item of the request
NormalizeItem ==
    /\ variant = "bolt"
    /\ request.kind = "normalize"
    /\ response.op = "none"
    /\ response' = [op |-> "normalize",
                    results |-> <<BoltNormalizeItem(request.sourceKey, request.item,
                                                    request.index)>>,
                    previous |-> <<>>, calls |-> <<>>]
    /\ UNCHANGED <<request, variant, hasAbortController, now, rssCache, feedVars,
                   translationVars, histVars>>

\* server.js: normalizeArticle applied to the item of the request
NormalizeArticle ==
    /\ variant = "server"
    /\ request.kind = "normalize"
    /\ response.op = "none"
    /\ response' = [op |-> "normalize",
                    results |-> <<normalizeArticle(request.sourceKey, request.item,
                                                   request.index, now)>>,
                    previous |-> <<>>, calls |-> <<>>]
    /\ UNCHANGED <<request, variant, hasAbortController, now, rssCache, feedVars,
                   translationVars, histVars>>

NextNormalize ==
    \/ NormalizeItem
    \/ NormalizeArticle

SpecNormalize == InitNormalize /\ [][NextNormalize]_vars

\* the item of the request has nothing but a title
OnlyTitle ==
    /\ request.kind = "normalize"
    /\ request.item.title # ""
    /\ \A f \in {"description", "content", "guid", "link", "pubDate"} : request.item[f] = ""

Normalized == response.results[1]

\* C15: an item that has only a title becomes an article whose snippet is
\* '(No Description)', whose fullText falls back to the snippet, whose
\* publishedAt is null and publishedAtMs 0, and whose id is a non-empty
\* synthetic string; every article the normalizer produces has a non-empty id.
C15_TitleOnlyItem ==
    response.op = "normalize" =>
        /\ Normalized.id # ""
        /\ OnlyTitle =>
            /\ Normalized.snippet = "(No Description)"
            /\ Normalized.fullText = Normalized.snippet
            /\ Normalized.publishedAt = Null
            /\ Normalized.publishedAtMs = 0
            /\ Normalized.id \notin {request.item.guid, request.item.link}

\* the part of C15 that both normalizers keep
NormalizedIdNonEmpty ==
    response.op = "normalize" =>
        /\ Normalized.id # ""
        /\ OnlyTitle =>
            /\ Normalized.snippet \in {"(No Description)", NO_DESCRIPTION}
            /\ Normalized.publishedAt = Null
            /\ Normalized.publishedAtMs = 0
            /\ Normalized.id \notin {request.item.guid, request.item.link}

----------------------------------------------------------------------------
(* Claims about the size of a response *)

\* the translate calls of the display translation made for an article
CallsFor(a) == {i \in 1..Len(response.calls) : response.calls[i].article = a}

\* C16: a search never returns more than MAX_RESULTS_DEFAULT articles, or
\* MAX_RESULTS_VIEW_ALL with viewAll; the display translation is made only
\* for the articles that are returned, with at most 2 translate calls each.
C16_ResultsLimited ==
    (request.kind = "search" /\ response.op = "search") =>
        /\ Len(response.results)
                <= (IF request.viewAll THEN MAX_RESULTS_VIEW_ALL ELSE MAX_RESULTS_DEFAULT)
        /\ \A i \in 1..Len(response.calls) :
                response.calls[i].article \in SeqToSet(response.results)
        /\ \A a \in SeqToSet(response.results) : Cardinality(CallsFor(a)) <= 2

\* a search with viewAll that had more articles than it may return
C16_Witness ==
    /\ request.kind = "search"
    /\ response.op = "search"
    /\ request.viewAll
    /\ Len(request.articles) > MAX_RESULTS_VIEW_ALL
    /\ Len(response.results) = MAX_RESULTS_VIEW_ALL
    /\ Len(response.calls) = 2 * MAX_RESULTS_VIEW_ALL

----------------------------------------------------------------------------
(* Searches next to translations: what a search start does to both caches *)

NextRefresh ==
    \/ \E source \in SourceParams, refresh \in BOOLEAN : SearchStart(source, refresh, FALSE)
    \/ \E source \in SourceParams : ServerSearchStart(source)
    \/ \E f \in 1..MaxFetches, v \in FeedValues : FetchSucceed(f, v)
    \/ \E lang \in TargetLangs : Translate("a", lang)
    \/ ProcessQueueSucceed(1, "T")

SpecRefresh == InitCache /\ [][NextRefresh]_vars

\* the step is the start of a search
SearchStarts == Len(searches') = Len(searches) + 1

Started == searches'[Len(searches')]

\* the entries of the feed cache that have not expired
LiveFeedKeys == {k \in SeqToSet(MapKeys(rssCache)) : LiveEntry(rssCache, k)}

----------------------------------------------------------------------------
(* LRUCache under sets and gets, with the order in which its keys were set  *)
(* and used                                                                 *)

\* the keys of ks that the cache still holds, then k
Latest(ks, after, k) ==
    Append(SelectSeq(ks, LAMBDA u : u # k /\ MapHas(after, u)), k)

Held(ks, after) == SelectSeq(ks, LAMBDA u : MapHas(after, u))

\* bolt.md: cache.set(key, value, ttl)
LruSet(k, v, ttl) ==
    /\ variant = "bolt"
    /\ rssCache' = LRUSet(rssCache, k, v, ttl, now, Capacity)
    /\ order' = [set |-> Latest(order.set, rssCache', k),
                 use |-> Latest(order.use, rssCache', k),
                 last |-> IF ~MapHas(rssCache, k) /\ Len(rssCache) >= Capacity
                          THEN [full |-> TRUE,
                                removed |-> {u \in CacheKeys :
                                                MapHas(rssCache, u) /\ ~MapHas(rssCache', u)},
                                earliestSet |-> order.set[1],
                                leastUsed |-> order.use[1]]
                          ELSE NoEviction,
                 call |-> [op |-> "set", key |-> k, present |-> MapHas(rssCache, k)]]
    /\ UNCHANGED <<pureVars, variant, hasAbortController, now, feedVars, translationVars,
                   hist, stored, lastGet>>

\* bolt.md: cache.get(key)
LruGet(k) ==
    /\ variant = "bolt"
    /\ rssCache' = LRUGetCache(rssCache, k, now)
    /\ order' = [set |-> Held(order.set, rssCache'),
                 use |-> IF LRUGetResult(rssCache, k, now).found
                         THEN Latest(order.use, rssCache', k)
                         ELSE Held(order.use, rssCache'),
                 last |-> NoEviction,
                 call |-> [op |-> "get", key |-> k,
                           present |-> LRUGetResult(rssCache, k, now).found]]
    /\ UNCHANGED <<pureVars, variant, hasAbortController, now, feedVars, translationVars,
                   hist, stored, lastGet>>

LruTick ==
    /\ Tick
    /\ order' = [order EXCEPT !.last = NoEviction, !.call = NoCall]
    /\ UNCHANGED <<pureVars, variant, hasAbortController, rssCache, feedVars, translationVars,
                   hist, stored, lastGet>>

\* the value is opaque to the cache: one value is enough for the order
LruValues == {<<1>>}

NextLru ==
    \/ \E k \in CacheKeys, v \in LruValues, ttl \in TTLs : LruSet(k, v, ttl)
    \/ \E k \in CacheKeys : LruGet(k)
    \/ LruTick

InitLru == InitCache /\ variant = "bolt"

SpecLru == InitLru /\ [][NextLru]_vars

C21_ResetKeepsOthers ==
    [][(order'.call.op = "set" /\ MapHas(rssCache, order'.call.key)) =>
        /\ SeqToSet(MapKeys(rssCache')) = SeqToSet(MapKeys(rssCache))
        /\ Len(rssCache') = Len(rssCache)
        /\ MapDelete(rssCache', order'.call.key) = MapDelete(rssCache, order'.call.key)]_vars

\* a present key was set again while the cache was full and other keys were
\* held
C21_Witness ==
    /\ order.call.op = "set"
    /\ order.call.present
    /\ Len(rssCache) = Capacity
    /\ rssCache[Len(rssCache)].key = order.call.key
    /\ Capacity > 1

----------------------------------------------------------------------------
(* The translation queue under fair scheduling: one caller, the query that  *)
(* a search translates to English, is followed through the queue while      *)
(* other callers keep the pool busy                                         *)

QueryText == "q"
QueryLang == "en"
OtherTexts == {"a"}

QueryQueued == \E i \in 1..Len(translationQueue) : translationQueue[i].text = QueryText
QueryRunning == \E i \in 1..Len(tasks) : tasks[i].text = QueryText

\* bolt.md: SearchService.search translates the query; one query at a time
\* is followed
BoltTranslateQuery ==
    /\ ~QueryQueued
    /\ ~QueryRunning
    /\ Translate(QueryText, QueryLang)

\* server.js: translateQueryToEnglish(query); one query at a time is followed
translateQueryToEnglish ==
    /\ ~QueryQueued
    /\ ~QueryRunning
    /\ translateText(QueryText, QueryLang)

\* what the followed calls meet: an answer, or the timeout of fetchWithTimeout
QueueTranslations == {"T"}
QueueFailures == {"timeout"}

\* the outbound call of the i-th task in flight completes or times out
Complete(i) ==
    \/ \E v \in QueueTranslations : ProcessQueueSucceed(i, v) \/ ExecuteSucceed(i, v)
    \/ \E kind \in QueueFailures : ProcessQueueFail(i, kind) \/ ExecuteFail(i, kind)

NextQueue ==
    \/ BoltTranslateQuery
    \/ translateQueryToEnglish
    \/ \E text \in OtherTexts, lang \in TargetLangs : Translate(text, lang)
    \/ \E text \in OtherTexts, lang \in TargetLangs : translateText(text, lang)
    \/ \E i \in 1..MAX_CONCURRENT_TRANSLATIONS, v \in QueueTranslations :
            ProcessQueueSucceed(i, v)
    \/ \E i \in 1..MAX_CONCURRENT_TRANSLATIONS, kind \in QueueFailures :
            ProcessQueueFail(i, kind)
    \/ \E i \in 1..MAX_CONCURRENT_TRANSLATIONS, v \in QueueTranslations : ExecuteSucceed(i, v)
    \/ \E i \in 1..MAX_CONCURRENT_TRANSLATIONS, kind \in QueueFailures : ExecuteFail(i, kind)
    \/ Finalizer
    \/ TranslationCleanup
    \/ TranslationTick

\* every outbound call eventually completes or times out (fetchWithTimeout
\* aborts it), and a queued .finally callback runs
FairQueue ==
    /\ \A i \in 1..MAX_CONCURRENT_TRANSLATIONS : SF_vars(Complete(i))
    /\ WF_vars(Finalizer)

SpecQueueFair == Init /\ [][NextQueue]_vars /\ FairQueue

QueryResolved ==
    /\ lastSettled.done
    /\ lastSettled.text = QueryText
    /\ lastSettled.state = "resolved"

\* a translate call has just put a task in the queue
Enqueues == lastTranslate'.done /\ lastTranslate'.enqueued

\* a task waits only while every slot of the pool is taken by a call in
\* flight or by one whose .finally callback is about to run
NoFreeSlotWhileQueued ==
    translationQueue # <<>> =>
        /\ activeTranslations = MAX_CONCURRENT_TRANSLATIONS
        /\ activeTranslations = Len(tasks) + finalizers

\* C23: when every outbound translation call eventually completes or times
\* out, a task enqueued by translate is eventually taken from the queue by a
\* worker and its caller's promise is eventually resolved; a task waits only
\* while no slot is free, a freed slot taking the next queued task, so that
\* no task is stranded and the queue is empty again and again unless callers
\* keep enqueuing for ever.
C23_QueueDrains ==
    /\ []NoFreeSlotWhileQueued
    /\ QueryQueued ~> QueryRunning
    /\ QueryRunning ~> QueryResolved
    /\ ([]<><<Enqueues>>_vars) \/ []<>(translationQueue = <<>>)

\* the followed task waits in the queue behind a full pool
C23_Witness ==
    /\ QueryQueued
    /\ Len(tasks) + finalizers = MAX_CONCURRENT_TRANSLATIONS

----------------------------------------------------------------------------
(* Claims about what a settled translation leaves in the cache *)

\* C24: when a translation task succeeds, the translated string is in the
\* translation cache under the task's cache key, expiring TRANSLATION_TTL
\* (24 hours) after the write, by the time the caller's promise is resolved
\* with it.
C24_CachedBeforeResolved ==
    (lastSettled.done /\ ~lastSettled.failed) =>
        /\ MapHas(translationCache, lastSettled.key)
        /\ MapGet(translationCache, lastSettled.key).value = lastSettled.value
        /\ MapGet(translationCache, lastSettled.key).expires = now + TRANSLATION_TTL

\* a task has succeeded at a time after the start
C24_Witness ==
    /\ lastSettled.done
    /\ ~lastSettled.failed
    /\ lastSettled.value = "T"
    /\ now > 0
    /\ MapHas(translationCache, lastSettled.key)

----------------------------------------------------------------------------
(* The deduplication step on lists that hold articles with empty keys *)

DedupeArticles == {1, 2, 3, 4, 8} \cup EdgeArticles
DedupeLists ==
    UNION {{as \in [1..n -> DedupeArticles] : \A i, j \in 1..n : as[i] = as[j] => i = j} :
           n \in 0..MaxArticles}

InitDedupe ==
    /\ InitProgram
    /\ hasAbortController
    /\ variant = "bolt"
    /\ request \in {SearchRequest(as, "", "", FALSE) : as \in DedupeLists}
    /\ response = NoResponse

NextDedupe ==
    \/ DeduplicateOnce
    \/ DeduplicateAgain

SpecDedupe == InitDedupe /\ [][NextDedupe]_vars

\* the two articles have the same non-empty normalized link or the same
\* non-empty normalized title
Collide(a, b) ==
    \/ LinkKey[a] # "" /\ LinkKey[a] = LinkKey[b]
    \/ TitleKey[a] # "" /\ TitleKey[a] = TitleKey[b]

Deduplicated == response.op \in {"deduplicate", "deduplicated twice"}

\* C25: in the output of the deduplication step no two articles have the same
\* non-empty normalized link and no two have the same non-empty normalized
\* title, whatever the input list.
C25_NoSharedKey ==
    Deduplicated =>
        \A i, j \in 1..Len(response.results) :
            i # j => /\ LinkKey[response.results[i]] # ""
                        => LinkKey[response.results[i]] # LinkKey[response.results[j]]
                     /\ TitleKey[response.results[i]] # ""
                        => TitleKey[response.results[i]] # TitleKey[response.results[j]]

\* the step kept several articles of an input in which two had collided
C25_Witness ==
    /\ response.op = "deduplicate"
    /\ Len(response.results) >= 2
    /\ Len(response.results) < Len(response.previous)

Descending(as) ==
    \A i, j \in 1..Len(as) :
        i < j => Article(as[i]).publishedAtMs >= Article(as[j]).publishedAtMs

\* C26: the output of the deduplication step is its input sorted by
\* descending publishedAtMs with some articles left out and the order of the
\* others kept; every article of the output is a record of the input; and
\* every article left out has the normalized link or the normalized title of
\* an article of the output that precedes it in the sorted input.
C26_KeepsFirstOfEach ==
    Deduplicated =>
        LET sorted == SortByMsDesc(response.previous)
            kept == SeqToSet(response.results)
        IN /\ Descending(sorted)
           /\ SeqToSet(sorted) = SeqToSet(response.previous)
           /\ response.results = SelectSeq(sorted, LAMBDA a : a \in kept)
           /\ kept \subseteq SeqToSet(response.previous)
           /\ \A p \in 1..Len(sorted) :
                sorted[p] \notin kept =>
                    \E q \in 1..(p - 1) : sorted[q] \in kept /\ Collide(sorted[q], sorted[p])

\* the step left an article out and kept others in an order that is not the
\* order of the input
C26_Witness ==
    /\ response.op = "deduplicate"
    /\ Len(response.results) >= 2
    /\ Len(response.results) < Len(response.previous)
    /\ response.results
        # SelectSeq(response.previous, LAMBDA a : a \in SeqToSet(response.results))

\* C27: an empty normalized key never causes a drop: an article that shares
\* no non-empty normalized key with another article of the input is kept,
\* and so is every article whose two keys are both empty.
C27_EmptyKeyNeverDrops ==
    Deduplicated =>
        \A a \in SeqToSet(response.previous) :
            /\ (\A b \in SeqToSet(response.previous) \ {a} : ~Collide(a, b))
                    => a \in SeqToSet(response.results)
            /\ (LinkKey[a] = "" /\ TitleKey[a] = "") => a \in SeqToSet(response.results)

\* the step kept two articles with an empty normalized link and two with an
\* empty normalized title
C27_Witness ==
    /\ response.op = "deduplicate"
    /\ \E a, b \in SeqToSet(response.results) :
            a # b /\ LinkKey[a] = "" /\ LinkKey[b] = ""
    /\ \E a, b \in SeqToSet(response.results) :
            a # b /\ TitleKey[a] = "" /\ TitleKey[b] = "" /\ LinkKey[a] # ""

----------------------------------------------------------------------------
(* Claims about the order of the results *)

\* C28: with a non-empty query the articles of the result are in the order of
\* non-increasing relevance score, and two articles of equal score are in the
\* order of non-increasing publishedAtMs.
C28_RankedByScoreThenDate ==
    (request.kind = "search" /\ request.query # "" /\ response.op = "search") =>
        \A i, j \in 1..Len(response.results) :
            i < j =>
                \/ RelevanceScore(response.results[i]) > RelevanceScore(response.results[j])
                \/ /\ RelevanceScore(response.results[i]) = RelevanceScore(response.results[j])
                   /\ Article(response.results[i]).publishedAtMs
                        >= Article(response.results[j]).publishedAtMs

\* a result with two articles of one positive score and different dates, the
\* older of which the feeds had delivered first
C28_Witness ==
    /\ request.kind = "search"
    /\ request.query # ""
    /\ response.op = "search"
    /\ \E i, j \in 1..Len(response.results) :
            /\ i < j
            /\ RelevanceScore(response.results[i]) = RelevanceScore(response.results[j])
            /\ RelevanceScore(response.results[i]) > 0
            /\ Article(response.results[i]).publishedAtMs
                    > Article(response.results[j]).publishedAtMs
            /\ \E p, q \in 1..Len(request.articles) :
                    /\ p < q
                    /\ request.articles[p] = response.results[j]
                    /\ request.articles[q] = response.results[i]

----------------------------------------------------------------------------
(* Searches with no query whose sources deliver articles of one date, of no *)
(* date and of a date before 1970, the fetches completing in either order   *)

OrderValues == {<<2>>, <<4>>, <<5>>, <<12>>}

NextOrder ==
    \/ SearchStart("", FALSE, FALSE)
    \/ ServerSearchStart("")
    \/ \E f \in 1..MaxFetches, v \in OrderValues : FetchSucceed(f, v)
    \/ \E s \in 1..MaxSearches : SearchJoin(s)

SpecOrder == InitCache /\ [][NextOrder]_vars

\* publishedAtMs is 0: the item had no date that parses
UnknownDate(a) == Article(a).publishedAtMs = 0

\* what the search makes of the lists its sources delivered, source by source
ResultOf(s) ==
    LET lists == [i \in 1..Len(s.lists) |-> s.lists[i].list]
    IN IF variant = "bolt" THEN BoltResults(lists, s.viewAll) ELSE ServerResults(lists)

\* C29: a search with no query returns its articles in the order of
\* non-increasing publishedAtMs, the articles of unknown date (publishedAtMs
\* 0) after all the dated ones, and its result is a function of what the
\* sources delivered, whatever the order in which the fetches completed.
C29_NewestFirstUnknownLast ==
    \A s \in 1..Len(searches) :
        searches[s].state = "done" =>
            LET r == searches[s].results
            IN /\ Descending(r)
               /\ \A i, j \in 1..Len(r) : (UnknownDate(r[i]) /\ ~UnknownDate(r[j])) => j < i
               /\ r = ResultOf(searches[s])

\* the part of C29 that holds: the order of non-increasing publishedAtMs, and
\* a result that depends on the delivered lists alone
NewestFirstDeterministic ==
    \A s \in 1..Len(searches) :
        searches[s].state = "done" =>
            /\ Descending(searches[s].results)
            /\ searches[s].results = ResultOf(searches[s])

\* a search got two articles of one date from two sources, the fetch of the
\* first source completing last: its URL is the newest entry of the cache
NewestFirstDeterministicReached ==
    \E s \in 1..Len(searches) :
        /\ searches[s].state = "done"
        /\ Len(searches[s].results) = 2
        /\ Article(searches[s].results[1]).publishedAtMs
                = Article(searches[s].results[2]).publishedAtMs
        /\ rssCache # <<>>
        /\ rssCache[Len(rssCache)].key = RSS_FEEDS[SourcesToLoad("")[1]]

----------------------------------------------------------------------------
(* The normalizer on items whose text is longer than the full text may be *)

WordLength == 400     \* characters of a word of the long texts, its space included

\* String.prototype.repeat
RECURSIVE Repeat(_, _)
Repeat(str, n) ==
    IF n = 0 THEN ""
    ELSE IF n % 2 = 1 THEN str \o Repeat(str, n - 1)
    ELSE LET half == Repeat(str, n \div 2) IN half \o half

\* a text of n characters: words of one letter repeated, a space between them
Text(n) ==
    SubSeq(Repeat(Repeat("x", WordLength - 1) \o " ", n \div WordLength + 1), 1, n - 1) \o "y"

LongDescriptions == {"", "<p>Long  text</p>", "<p>" \o Text(FULL_TEXT_LIMIT + 1) \o "</p>"}
LongContents ==
    {"", "abc", "<div>" \o Text(FULL_TEXT_LIMIT) \o "</div>",
     "<div>" \o Text(FULL_TEXT_LIMIT + WordLength) \o "</div>"}

LongItems ==
    [title : {"Title"}, description : LongDescriptions, content : LongContents, guid : Guids,
     link : Links, pubDate : {"", "1970-01-01T00:00:00.002Z"}]

InitFullText ==
    /\ InitProgram
    /\ hasAbortController
    /\ request \in {[kind |-> "normalize", sourceKey |-> SourceKeys[1], item |-> item,
                      index |-> i] : item \in LongItems, i \in Indexes}
    /\ response = NoResponse

SpecFullText == InitFullText /\ [][NextNormalize]_vars

\* the text ends with the mark of a cut
Truncated(text) == EndsWith(text, Ellipsis)

WithoutMark(text) ==
    IF Truncated(text) THEN SubSeq(text, 1, Len(text) - Len(Ellipsis)) ELSE text

ShorterOf(a, b) == IF a < b THEN a ELSE b

\* fullText is the first FULL_TEXT_LIMIT characters, at most, of the source
\* with its HTML stripped, and carries the mark when that text was longer
FullTextOf(source, fullText) ==
    LET clean == stripHtml(source)
    IN /\ WithoutMark(fullText) = SubSeq(clean, 1, ShorterOf(Len(clean), FULL_TEXT_LIMIT))
       /\ Len(clean) > FULL_TEXT_LIMIT => Truncated(fullText)

FullTextCapped ==
    \E source \in {request.item.content, request.item.description} :
        FullTextOf(source, response.results[1].fullText)

\* C30: the fullText of a normalized article is the text of the item with its
\* HTML stripped, at most 4000 characters of it, and when the stripped text
\* was longer than 4000 characters fullText carries a truncation indicator.
C30_FullTextCapped ==
    response.op = "normalize" => FullTextCapped

\* the part of C30 that server.js keeps
ServerFullTextCapped ==
    (variant = "server" /\ response.op = "normalize") => FullTextCapped

\* server.js has cut a text longer than the limit
ServerFullTextCappedReached ==
    /\ variant = "server"
    /\ response.op = "normalize"
    /\ Truncated(response.results[1].fullText)
    /\ Len(response.results[1].fullText) = FULL_TEXT_LIMIT + Len(Ellipsis)

----------------------------------------------------------------------------
(* The feed fetches against an upstream server that may stall: the exchange *)
(* has two parts, the wait for the response and the reading of its body     *)

\* fetch() resolves with the response: .finally(() => clearTimeout(timeoutId))
\* in bolt.md, the finally of fetchWithTimeout in server.js
ResponseArrives(f) ==
    /\ f \in 1..Len(fetches)
    /\ fetches[f].state = "inflight"
    /\ fetches[f].timer
    /\ fetches' = [fetches EXCEPT ![f].timer = FALSE]
    /\ UNCHANGED <<pureVars, variant, hasAbortController, now, rssCache, pendingFetches, searches,
                   translationVars, histVars>>

\* response.text() and the parser deliver the articles v
BodyRead(f, v) ==
    /\ f \in 1..Len(fetches)
    /\ ~fetches[f].timer
    /\ FetchSucceed(f, v)

\* the response has a status that is not ok, or its body does not parse
BodyFail(f) ==
    /\ f \in 1..Len(fetches)
    /\ ~fetches[f].timer
    /\ FetchFail(f, "status")

\* the timer fires: controller.abort() rejects the fetch() that is waiting
FetchTimeout(f) ==
    /\ f \in 1..Len(fetches)
    /\ fetches[f].timer
    /\ FetchFail(f, "timeout")

NextStall ==
    \/ \E source \in SourceParams : SearchStart(source, FALSE, FALSE)
    \/ \E source \in SourceParams : ServerSearchStart(source)
    \/ \E f \in 1..MaxFetches : ResponseArrives(f)
    \/ \E f \in 1..MaxFetches : BodyRead(f, <<1>>)
    \/ \E f \in 1..MaxFetches : BodyFail(f)
    \/ \E f \in 1..MaxFetches : FetchTimeout(f)
    \/ \E s \in 1..MaxSearches : SearchJoin(s)

\* an armed timer fires, and a search whose fetches have settled resumes; the
\* upstream server owes nothing
FairStall ==
    /\ \A f \in 1..MaxFetches : WF_vars(FetchTimeout(f))
    /\ \A s \in 1..MaxSearches : WF_vars(SearchJoin(s))

SpecStall == InitCache /\ [][NextStall]_vars /\ FairStall

Waiting(f) == f <= Len(fetches) /\ fetches[f].state = "inflight"

\* C31: every fetchFeed call eventually settles and the pending entry of its
\* URL is eventually removed, whatever the upstream server does, a stall
\* before the response or while the body is read included.
C31_FetchAlwaysSettles ==
    /\ \A f \in 1..MaxFetches : Waiting(f) ~> ~Waiting(f)
    /\ \A u \in Urls : (pendingFetches[u] # 0) ~> (pendingFetches[u] = 0)

\* the part of C31 that holds: a fetch whose response does not arrive is
\* aborted by its timer
StallBeforeResponseAborted ==
    \A f \in 1..MaxFetches :
        (Waiting(f) /\ fetches[f].timer) ~> ~(Waiting(f) /\ fetches[f].timer)

\* the timer of a fetch in flight is armed
TimerArmedWhileWaiting ==
    \A f \in 1..Len(fetches) : fetches[f].state = "inflight" => fetches[f].timer

----------------------------------------------------------------------------
(* The image of an article *)

\* What xml2js (explicitArray: false, mergeAttrs: true) makes of the elements
\* of one name: Missing for no element or one empty element (undefined or '',
\* both falsy), NoUrl for an element with attributes but no url, EmptyFirst
\* for several elements the first of which is empty, and otherwise the url of
\* the element, or of the first of several
Missing == ""
NoUrl == "{}"
EmptyFirst == "['']"
Undefined == "undefined"

\* Array.isArray(v) ? v[0] : v
FirstEntry(v) == IF v = EmptyFirst THEN Missing ELSE v

\* server.js: entry.url || (entry.$ && entry.$.url) || null
UrlOrNull(entry) == IF entry = NoUrl THEN Null ELSE entry

\* server.js: extractImage, and the imageUrl || null of normalizeArticle
extractImage(item) ==
    LET group == IF item.hasGroup THEN Or(item.groupContent, item.groupThumbnail) ELSE Missing
        media == Or(item.content, item.thumbnail)
    IN IF FirstEntry(group) # Missing THEN UrlOrNull(FirstEntry(group))
       ELSE IF FirstEntry(media) # Missing THEN UrlOrNull(FirstEntry(media))
       ELSE IF FirstEntry(item.enclosure) # Missing THEN UrlOrNull(FirstEntry(item.enclosure))
       ELSE Null

\* bolt.md: findUrl = (obj) => obj?.url || obj?.$?.url
findUrl(obj) == IF obj \in {Missing, NoUrl} THEN Undefined ELSE obj

\* bolt.md: the image of RSSService._normalizeItem
BoltExtractImage(item) ==
    LET media == Or(item.content,
                    Or(item.thumbnail, IF item.hasGroup THEN item.groupContent ELSE Missing))
    IN IF media # Missing THEN findUrl(FirstEntry(media))
       ELSE IF item.enclosure # Missing THEN findUrl(FirstEntry(item.enclosure))
       ELSE Null

ImageItems ==
    {item \in [hasGroup : BOOLEAN,
               groupContent : {Missing, NoUrl, EmptyFirst, "https://x.com/gc.png"},
               groupThumbnail : {Missing, "https://x.com/gt.png"},
               content : {Missing, NoUrl, "https://x.com/c.png"},
               thumbnail : {Missing, "https://x.com/t.png"},
               enclosure : {Missing, NoUrl, "https://x.com/e.png"}] :
        ~item.hasGroup => (item.groupContent = Missing /\ item.groupThumbnail = Missing)}

InitImage ==
    /\ InitProgram
    /\ hasAbortController
    /\ request \in {[kind |-> "image", item |-> item] : item \in ImageItems}
    /\ response = NoResponse

\* bolt.md: RSSService._normalizeItem picks the image of the item
NormalizeItemImage ==
    /\ variant = "bolt"
    /\ request.kind = "image"
    /\ response.op = "none"
    /\ response' = [op |-> "image", results |-> <<BoltExtractImage(request.item)>>,
                    previous |-> <<>>, calls |-> <<>>]
    /\ UNCHANGED <<request, variant, hasAbortController, now, rssCache, feedVars,
                   translationVars, histVars>>

\* server.js: normalizeArticle picks the image of the item
NormalizeArticleImage ==
    /\ variant = "server"
    /\ request.kind = "image"
    /\ response.op = "none"
    /\ response' = [op |-> "image", results |-> <<extractImage(request.item)>>,
                    previous |-> <<>>, calls |-> <<>>]
    /\ UNCHANGED <<request, variant, hasAbortController, now, rssCache, feedVars,
                   translationVars, histVars>>

NextImage ==
    \/ NormalizeItemImage
    \/ NormalizeArticleImage

SpecImage == InitImage /\ [][NextImage]_vars

\* the candidates of an item in the order media group, top-level media,
\* enclosure; the candidates of one place that are there
Places(item) ==
    <<IF item.hasGroup THEN {item.groupThumbnail, item.groupContent} ELSE {},
      {item.thumbnail, item.content},
      {item.enclosure}>>

FoundAt(item, n) == {FirstEntry(c) : c \in Places(item)[n]} \ {Missing}

\* the place of the first candidate found, 0 when there is none
FirstPlace(item) ==
    IF \A n \in 1..3 : FoundAt(item, n) = {} THEN 0
    ELSE CHOOSE n \in 1..3 : FoundAt(item, n) # {} /\ \A m \in 1..(n - 1) : FoundAt(item, m) = {}

ImageUrl == response.results[1]

\* the url of a candidate of the first place that has one, null without one
FirstCandidateUrl ==
    response.op = "image" =>
        IF FirstPlace(request.item) = 0 THEN ImageUrl = Null
        ELSE ImageUrl \in {UrlOrNull(c) : c \in FoundAt(request.item, FirstPlace(request.item))}

\* C32: imageUrl is the url of the first candidate found among the thumbnail
\* or content of the media group, then the thumbnail or content of the item,
\* then the enclosure, and null when no url is found.
C32_ImageByPriority == FirstCandidateUrl

\* server.js keeps the order unless the content of the media group is a list
\* that starts with an empty element
ServerImageByPriority ==
    (variant = "server" /\ request.kind = "image" /\ request.item.groupContent # EmptyFirst)
        => FirstCandidateUrl

ServerImageByPriorityReached ==
    /\ variant = "server"
    /\ response.op = "image"
    /\ request.item.hasGroup
    /\ request.item.groupContent = "https://x.com/gc.png"
    /\ request.item.content = "https://x.com/c.png"
    /\ ImageUrl = "https://x.com/gc.png"

----------------------------------------------------------------------------
(* Claims about the worker pool of the translations *)

\* control is back in the event loop: no .finally callback waits among the
\* microtasks
InEventLoop == finalizers = 0

\* C33: whenever control is back in the event loop, a non-empty translation
\* queue means that exactly MAX_CONCURRENT_TRANSLATIONS calls are in flight,
\* and the counter of active workers equals the number of calls in flight,
\* is never negative and is 0 when nothing is queued or in flight.
C33_WorkConserving ==
    /\ activeTranslations >= 0
    /\ InEventLoop =>
        /\ translationQueue # <<>> => Len(tasks) = MAX_CONCURRENT_TRANSLATIONS
        /\ activeTranslations = Len(tasks)
        /\ (translationQueue = <<>> /\ tasks = <<>>) => activeTranslations = 0

\* a task waits behind a full pool while the counter shows every call
C33_Witness ==
    /\ InEventLoop
    /\ translationQueue # <<>>
    /\ activeTranslations = Len(tasks)
    /\ activeTranslations = MAX_CONCURRENT_TRANSLATIONS

\* the pool is idle again after a call has settled
IdleAgain ==
    /\ InEventLoop
    /\ lastSettled.done
    /\ translationQueue = <<>>
    /\ tasks = <<>>
    /\ activeTranslations = 0

----------------------------------------------------------------------------
(* The order in which waiting translations start: callers ask for two texts *)
(* while the pool is full, so that several tasks wait                       *)

MaxWaiting == 2
FifoTexts == {"a", "b"}
FifoLang == "ru"

\* translate or translateText, while fewer than MaxWaiting tasks wait
FifoTranslate(text) ==
    /\ Len(translationQueue) < MaxWaiting
    /\ BoltTranslate(text, FifoLang) \/ ServerTranslateText(text, FifoLang)

NextFifo ==
    \/ \E text \in FifoTexts : FifoTranslate(text)
    \/ \E i \in 1..MAX_CONCURRENT_TRANSLATIONS, v \in QueueTranslations :
            ProcessQueueSucceed(i, v)
    \/ \E i \in 1..MAX_CONCURRENT_TRANSLATIONS, kind \in QueueFailures :
            ProcessQueueFail(i, kind)
    \/ \E i \in 1..MAX_CONCURRENT_TRANSLATIONS, v \in QueueTranslations : ExecuteSucceed(i, v)
    \/ \E i \in 1..MAX_CONCURRENT_TRANSLATIONS, kind \in QueueFailures : ExecuteFail(i, kind)
    \/ Finalizer

SpecFifo == Init /\ [][NextFifo]_vars

\* the task that a call for the text puts in the queue
FifoTask(text) ==
    Task(text, FifoLang, IF variant = "bolt" THEN BoltCacheKey(text, FifoLang)
                         ELSE ServerCacheKey(text, FifoLang))

\* a step starts the n tasks that have waited longest, in the order in which
\* they were enqueued: ext is the task the step enqueues, if any, and done
\* the call that the step completes, if any
StartsOldestFirst ==
    \E ext \in {<<>>} \cup {<<FifoTask(text)>> : text \in FifoTexts}, done \in 0..Len(tasks) :
        LET waiting == translationQueue \o ext
            kept == IF done = 0 THEN tasks ELSE Remove(tasks, done)
            n == Len(waiting) - Len(translationQueue')
        IN /\ n >= 0
           /\ translationQueue' = SubSeq(waiting, n + 1, Len(waiting))
           /\ tasks' = kept \o SubSeq(waiting, 1, n)

\* C34: the calls of the translation tasks start in the order in which the
\* tasks were enqueued: no task starts while a task enqueued before it waits.
C34_FifoStart == [][StartsOldestFirst]_vars

\* of two different tasks that waited, the one enqueued first has been
\* started by the completion of a call and the other still waits
C34_Witness ==
    /\ lastSettled.done
    /\ Len(tasks) = MAX_CONCURRENT_TRANSLATIONS
    /\ Len(translationQueue) = 1
    /\ translationQueue[1].text # tasks[Len(tasks)].text

----------------------------------------------------------------------------
(* Claims about reads and the time to live *)

\* the get of this step finds its entry and leaves it as it was stored
GetKeepsEntry ==
    (variant = "bolt" /\ lastGet'.done /\ lastGet'.result.found) =>
        /\ MapHas(rssCache, lastGet'.key)
        /\ MapHas(rssCache', lastGet'.key)
        /\ MapGet(rssCache', lastGet'.key) = MapGet(rssCache, lastGet'.key)

\* an entry set with a TTL is not served after the TTL has elapsed
ServedWithinTtl ==
    (variant = "bolt" /\ lastGet.done /\ lastGet.result.found /\ stored[lastGet.key].has)
        => /\ lastGet.time <= stored[lastGet.key].until
           /\ MapGet(rssCache, lastGet.key).expires = stored[lastGet.key].until

\* C35: a get that finds its entry re-inserts it with the expiry computed by
\* the last set, so that an entry is never served later than its TTL after
\* it was stored, however often it is read.
C35_GetKeepsExpiry == [][GetKeepsEntry]_vars /\ []ServedWithinTtl

\* an entry is served at the very end of its TTL and re-inserted behind
\* another entry with its expiry unchanged
C35_Witness ==
    /\ variant = "bolt"
    /\ lastGet.done
    /\ lastGet.result.found
    /\ stored[lastGet.key].has
    /\ lastGet.time = stored[lastGet.key].until
    /\ Len(rssCache) = 2
    /\ rssCache[2].key = lastGet.key
    /\ rssCache[2].expires = lastGet.time

----------------------------------------------------------------------------
(* Claims about a translation that fails *)

\* the cache key of a call for the text in the language of TargetLangs
KeysOf(text) ==
    {IF variant = "bolt" THEN BoltCacheKey(text, lang) ELSE ServerCacheKey(text, lang) :
        lang \in TargetLangs}

\* a task fails in this step: the cache stays as it is
FailureStoresNothing ==
    (lastSettled'.done /\ lastSettled'.failed) => translationCache' = translationCache

\* a call for a text whose key has no entry puts a task in the queue
MissEnqueues ==
    (lastTranslate'.done /\ lastTranslate'.text # ""
        /\ \A key \in KeysOf(lastTranslate'.text) : ~MapHas(translationCache, key))
        => lastTranslate'.enqueued

\* C36: a translation task that fails leaves the translation cache as it was:
\* the original text that the caller gets is not stored, and a later call
\* for the same key, finding no entry, makes a new outbound call.
C36_FailureNotCached == [][FailureStoresNothing /\ MissEnqueues]_vars

\* a task has failed next to the cached translation of another text, and its
\* own key has no entry
C36_Witness ==
    /\ lastSettled.done
    /\ lastSettled.failed
    /\ lastSettled.value = lastSettled.text
    /\ ~MapHas(translationCache, lastSettled.key)
    /\ translationCache # <<>>

----------------------------------------------------------------------------
(* Claims about a refresh that meets a fetch in flight *)

\* a search with refresh starts in this step: the cache is cleared, and a
\* call for a URL whose fetch is in flight holds the promise of that fetch,
\* which stays the only fetch in flight for the URL
RefreshJoins ==
    (variant = "bolt" /\ SearchStarts /\ Started.refresh) =>
        /\ rssCache' = <<>>
        /\ \A c \in 1..Len(Started.calls) :
                Started.calls[c].seen # 0 =>
                    /\ Started.calls[c].via = "pending"
                    /\ Started.calls[c].promise = Started.calls[c].seen
                    /\ InFlight(fetches', Started.calls[c].url) = {Started.calls[c].seen}
                    /\ InFlight(fetches, Started.calls[c].url) = {Started.calls[c].seen}

\* the fetch that a call of a search with refresh has joined succeeds in this
\* step: the call gets its articles, and the cache holds them for RSS_TTL
RefreshJoinerServed ==
    \A s \in 1..Len(searches) :
        (variant = "bolt" /\ searches[s].refresh
            /\ Len(searches'[s].calls) = Len(searches[s].calls)) =>
            \A c \in 1..Len(searches[s].calls) :
                LET before == searches[s].calls[c]
                    after == searches'[s].calls[c]
                IN (before.via = "pending" /\ before.state = "waiting"
                        /\ after.state # "waiting" /\ ~after.failed) =>
                    /\ after.state = "resolved"
                    /\ MapHas(rssCache', before.url)
                    /\ MapGet(rssCache', before.url) = Entry(before.url, after.result, now + RSS_TTL)

====
